---- MODULE Spec2Model ----
(***************************************************************************)
(* A model of soupy.py: the wrapper algebra (Scalar, Node, Collection and  *)
(* their null counterparts).  The state is a method chain: `w` is the      *)
(* wrapper the next call is made on, `res` records the last call (its      *)
(* receiver, arguments, the calls it made to the user function, and its    *)
(* outcome).  A chain starts with a constructor or wrap(...).              *)
(*                                                                         *)
(* Python values are records [t, n, xs, id]:                               *)
(*   t   the type: "int" "bool" "float" "none" "str" "list" "tuple" "dict" *)
(*       "slice" "tag" "navstr" or a wrapper class name;                   *)
(*   n   the payload of an int/bool/float (bool: 0/1; the floats met are   *)
(*       whole numbers), the start of a slice, the number of a string in   *)
(*       Names (0: the empty string), the element number of a              *)
(*       tag, the length of a navstr;                                      *)
(*   xs  the elements of a list/tuple, the (key, value) tuples of a dict   *)
(*       in insertion order, the items of a Collection, or the one held    *)
(*       value of a Scalar/Node;                                           *)
(*   id  the object identity of a wrapper (`is`), 0 for plain values.      *)
(* Identities are names: only their equality means anything.  The objects  *)
(* of the receiver are named 1..k, a call names the objects it creates     *)
(* from k+1 on, and the wrapper a chain starts with is renamed to 1..k.    *)
(***************************************************************************)
EXTENDS Integers, Sequences, FiniteSets, TLC

VARIABLES w, res, dbg

vars == <<w, res, dbg>>

\* Bounds of the model.
MaxLen == 2      \* longest sequence handed to Collection(...) or zip(...)
MaxOthers == 2   \* most operands handed to zip(...)
MaxFuncs == 2    \* most functions handed to each(...)

----------------------------------------------------------------------------
\* Values

V(t, n, xs, id) == [t |-> t, n |-> n, xs |-> xs, id |-> id]

IntV(n) == V("int", n, <<>>, 0)
BoolV(b) == V("bool", IF b THEN 1 ELSE 0, <<>>, 0)
FloatV(n) == V("float", n, <<>>, 0)
NoneV == V("none", 0, <<>>, 0)
StrV(k) == V("str", k, <<>>, 0)
DictV(entries) == V("dict", 0, entries, 0)
ListV(xs) == V("list", 0, xs, 0)
TupleV(xs) == V("tuple", 0, xs, 0)
Tag(k) == V("tag", k, <<>>, 0)
NavStr(len) == V("navstr", len, <<>>, 0)

NullKinds == {"Null", "NullNode", "NullCollection"}
SomeKinds == {"Scalar", "Node", "NavigableStringNode", "Collection"}

\* isinstance(value, Wrapper)
IsWrapper(v) == v.t \in NullKinds \cup SomeKinds

\* isinstance(value, BaseNull)
IsNull(v) == v.t \in NullKinds

\* isinstance(value, Node) (NavigableStringNode is a subclass)
IsNode(v) == v.t \in {"Node", "NavigableStringNode"}

\* Some.__init__: a Scalar holding value
Scalar(value, id) == V("Scalar", 0, <<value>>, id)

\* Null(), NullNode(), NullCollection()
MkNull(kind, id) == V(kind, 0, <<>>, id)

\* Node(value): __new__ picks the leaf class for a NavigableString
NodeNew(value, id) ==
  IF value.t = "navstr" THEN V("NavigableStringNode", 0, <<value>>, id)
  ELSE V("Node", 0, <<value>>, id)

\* hasattr(value, 'children'): of the values modelled, only a bs4 Tag has it
HasChildren(value) == value.t = "tag"

\* self._value: the one held value, or for a Collection the list of items
Held(x) == IF x.t = "Collection" THEN ListV(x.xs) ELSE x.xs[1]

----------------------------------------------------------------------------
\* Outcomes of a call: a returned value or a raised exception, the arguments
\* the user function was called with, and the next free identity.

NoExc == [cls |-> "", msg |-> ""]

Ok(val, calls, n) ==
  [ok |-> TRUE, val |-> val, exc |-> NoExc, calls |-> calls, n |-> n]

Raise(cls, msg, calls, n) ==
  [ok |-> FALSE, val |-> NoneV, exc |-> [cls |-> cls, msg |-> msg],
   calls |-> calls, n |-> n]

\* bool(value)
RECURSIVE Truthy(_)
Truthy(v) ==
  CASE v.t \in {"int", "bool", "float", "navstr"} -> v.n # 0
    [] v.t = "none" -> FALSE
    [] v.t = "slice" -> TRUE
    [] v.t = "str" -> v.n # 0
    [] v.t \in {"list", "tuple", "dict"} -> Len(v.xs) > 0
    [] v.t \in {"tag", "method", "function"} -> TRUE
    [] v.t \in NullKinds -> FALSE
    [] v.t = "Scalar" -> Truthy(v.xs[1])
    [] v.t \in {"Node", "NavigableStringNode"} -> TRUE
    [] v.t = "Collection" -> Len(v.xs) > 0

\* x.val(): [ok, val, cls]. A null variant raises NullValueError, a
\* Collection unwraps each item in order and raises what the first failing
\* item raises, and a value that is not a wrapper has no val attribute.
RECURSIVE ValOf(_)
ValOf(x) ==
  CASE x.t \in NullKinds ->
         [ok |-> FALSE, val |-> NoneV, cls |-> "NullValueError"]
    [] x.t = "Collection" ->
         LET vs == [i \in 1..Len(x.xs) |-> ValOf(x.xs[i])]
             bad == {i \in 1..Len(x.xs) : ~ vs[i].ok}
         IN IF bad = {}
            THEN [ok |-> TRUE, cls |-> "",
                  val |-> ListV([i \in 1..Len(x.xs) |-> vs[i].val])]
            ELSE [ok |-> FALSE, val |-> NoneV,
                  cls |-> vs[CHOOSE k \in bad : \A j \in bad : k <= j].cls]
    [] x.t \in {"Scalar", "Node", "NavigableStringNode"} ->
         [ok |-> TRUE, val |-> x.xs[1], cls |-> ""]
    [] OTHER -> [ok |-> FALSE, val |-> NoneV, cls |-> "AttributeError"]

\* _unwrap(val)
Unwrap(v) ==
  IF IsWrapper(v) THEN ValOf(v) ELSE [ok |-> TRUE, val |-> v, cls |-> ""]

\* wrap without the isinstance(value, Wrapper) test
Wrap_NoWrapperTest(value, id) ==
  IF HasChildren(value) THEN NodeNew(value, id) ELSE Scalar(value, id)

\* Wrapper.wrap(value)
Wrap(value, id) ==
  IF IsWrapper(value) THEN value
  ELSE IF HasChildren(value) THEN NodeNew(value, id)
  ELSE Scalar(value, id)

\* the next free identity after wrap(value)
WrapNext(value, id) == IF IsWrapper(value) THEN id ELSE id + 1

\* Rename the wrappers in value to n, n+1, ... in the order they are met:
\* [v: the renamed value, n: the next free identity]
RECURSIVE Renum(_, _), RenumSeq(_, _)
Renum(v, n) ==
  LET r == RenumSeq(v.xs, IF IsWrapper(v) THEN n + 1 ELSE n)
  IN [v |-> [v EXCEPT !.id = IF IsWrapper(v) THEN n ELSE 0, !.xs = r.vs],
      n |-> r.n]
RenumSeq(xs, n) ==
  IF xs = <<>> THEN [vs |-> <<>>, n |-> n]
  ELSE LET h == Renum(Head(xs), n)
           t == RenumSeq(Tail(xs), h.n)
       IN [vs |-> <<h.v>> \o t.vs, n |-> t.n]

\* the first identity not used by the objects of value
NextId(v) == Renum(v, 1).n

----------------------------------------------------------------------------
\* The functions a caller passes to map/apply/require, by name, and the
\* builtins the library itself passes to map.

Funcs == {"ident", "zero", "isScalar", "mkNull", "boom", "truthy"}

\* is value iterable (all/any accept it)
IsIterable(v) == v.t \in {"list", "tuple", "Collection"}

\* func(value), called with the next free identity
CallFn(f, v, id) ==
  CASE f = "ident" -> Ok(v, <<v>>, id)                      \* lambda x: x
    [] f = "zero" -> Ok(IntV(0), <<v>>, id)                 \* lambda x: 0
    [] f = "isScalar" -> Ok(BoolV(v.t = "Scalar"), <<v>>, id)
    [] f = "mkNull" -> Ok(MkNull("Null", id), <<v>>, id + 1) \* lambda x: Null()
    [] f = "boom" -> Raise("RuntimeError", "boom", <<v>>, id)
    [] f = "truthy" -> Ok(BoolV(Truthy(v)), <<v>>, id)      \* bool
    [] f = "all" ->
         IF IsIterable(v)
         THEN Ok(BoolV(\A i \in 1..Len(v.xs) : Truthy(v.xs[i])), <<v>>, id)
         ELSE Raise("TypeError", "not iterable", <<v>>, id)
    [] f = "any" ->
         IF IsIterable(v)
         THEN Ok(BoolV(\E i \in 1..Len(v.xs) : Truthy(v.xs[i])), <<v>>, id)
         ELSE Raise("TypeError", "not iterable", <<v>>, id)
    [] f = "notany" ->                       \* lambda items: not any(items)
         IF IsIterable(v)
         THEN Ok(BoolV(~ \E i \in 1..Len(v.xs) : Truthy(v.xs[i])), <<v>>, id)
         ELSE Raise("TypeError", "not iterable", <<v>>, id)

\* _make_callable(func): a plain callable is called directly
MakeCallable(f) == f

----------------------------------------------------------------------------
\* BaseNull

BaseNull_val(self, id) == Raise("NullValueError", "", <<>>, id)

\* orelse that always builds a Scalar around the fallback
BaseNull_orelse_AlwaysScalar(self, value, id) ==
  Ok(Scalar(value, id), <<>>, id + 1)

BaseNull_orelse(self, value, id) ==
  Ok(Wrap(value, id), <<>>, WrapNext(value, id))

\* map that returns a new Null whatever the class of self
BaseNull_map_ReturnsNull(self, f, id) == Ok(MkNull("Null", id), <<>>, id + 1)

BaseNull_map(self, f, id) == Ok(self, <<>>, id)

BaseNull_apply(self, f, id) == Ok(self, <<>>, id)

\* nonnull as inherited from Wrapper, without the override
BaseNull_nonnull_Inherited(self, id) == Ok(self, <<>>, id)

BaseNull_nonnull(self, id) == Raise("NullValueError", "", <<>>, id)

BaseNull_require(self, f, msg, id) == Raise("NullValueError", "", <<>>, id)

----------------------------------------------------------------------------
\* Some

\* wrap the outcome of a call to the user function
WrapOutcome(r) ==
  IF r.ok THEN Ok(Wrap(r.val, r.n), r.calls, WrapNext(r.val, r.n)) ELSE r

\* map that hands the function self.val() instead of self._value
Some_map_OnVal(self, f, id) ==
  WrapOutcome(CallFn(MakeCallable(f),
                     IF ValOf(self).ok THEN ValOf(self).val ELSE Held(self),
                     id))

Some_map(self, f, id) == WrapOutcome(CallFn(MakeCallable(f), Held(self), id))

\* apply that hands the function the held value instead of self
Some_apply_OnValue(self, f, id) ==
  WrapOutcome(CallFn(MakeCallable(f), Held(self), id))

Some_apply(self, f, id) == WrapOutcome(CallFn(MakeCallable(f), self, id))

Some_orelse(self, value, id) == Ok(self, <<>>, id)

Some_val(self, id) == Ok(self.xs[1], <<>>, id)

Wrapper_nonnull(self, id) == Ok(self, <<>>, id)

\* require that raises without the caller's message
Some_require_NoMsg(self, f, msg, id) ==
  LET a == Some_apply(self, f, id)
  IN IF ~ a.ok THEN a
     ELSE IF Truthy(a.val) THEN Ok(self, a.calls, a.n)
     ELSE Raise("NullValueError", "", a.calls, a.n)

Some_require(self, f, msg, id) ==
  LET a == Some_apply(self, f, id)
  IN IF ~ a.ok THEN a
     ELSE IF Truthy(a.val) THEN Ok(self, a.calls, a.n)
     ELSE Raise("NullValueError", msg, a.calls, a.n)

\* Collection.val: list(self.iter_val())
Collection_val(self, id) ==
  LET r == ValOf(self)
  IN IF r.ok THEN Ok(r.val, <<>>, id) ELSE Raise(r.cls, "", <<>>, id)

----------------------------------------------------------------------------
\* Method dispatch on the receiver's class

MapOp(x, f, id) ==
  IF IsNull(x) THEN BaseNull_map(x, f, id) ELSE Some_map(x, f, id)

ApplyOp(x, f, id) ==
  IF IsNull(x) THEN BaseNull_apply(x, f, id) ELSE Some_apply(x, f, id)

OrelseOp(x, value, id) ==
  IF IsNull(x) THEN BaseNull_orelse(x, value, id) ELSE Some_orelse(x, value, id)

ValOp(x, id) ==
  IF IsNull(x) THEN BaseNull_val(x, id)
  ELSE IF x.t = "Collection" THEN Collection_val(x, id)
  ELSE Some_val(x, id)

NonnullOp(x, id) ==
  IF IsNull(x) THEN BaseNull_nonnull(x, id) ELSE Wrapper_nonnull(x, id)

RequireOp(x, f, msg, id) ==
  IF IsNull(x) THEN BaseNull_require(x, f, msg, id)
  ELSE Some_require(x, f, msg, id)

----------------------------------------------------------------------------
\* Collection

\* Collection(items): __init__ with _assert_items_are_wrappers
Collection_init(items, id) ==
  IF \A i \in 1..Len(items) : IsWrapper(items[i])
  THEN Ok(V("Collection", 0, items, id), <<>>, id + 1)
  ELSE Raise("TypeError", "Collection can only hold other wrappers", <<>>, id)

\* len(arg) is defined
Sized(v) == v.t \in {"list", "tuple"}

\* the least element of a non-empty set of numbers
Least(S) == CHOOSE k \in S : \A j \in S : k <= j

\* Collection.zip(*others)
Collection_zip(self, others, id) ==
  LET operands == <<self>> \o others
      us == [i \in 1..Len(operands) |-> Unwrap(operands[i])]
      args == [i \in 1..Len(operands) |-> us[i].val]
      ct == Len(self.xs)                     \* self.count()
      failed == {i \in 1..Len(operands) : ~ us[i].ok}
      bad == {i \in 1..Len(args) : ~ Sized(args[i]) \/ Len(args[i].xs) # ct}
      pair(i) == TupleV([j \in 1..Len(args) |-> args[j].xs[i]])
      items == [i \in 1..ct |-> Scalar(pair(i), id + i - 1)]
  IN IF failed # {}
     THEN Raise(us[Least(failed)].cls, "", <<>>, id)
     ELSE IF bad # {}
     THEN IF Sized(args[Least(bad)])
          THEN Raise("ValueError", "Arguments are not all the same length",
                     <<>>, id)
          ELSE Raise("TypeError", "object has no len()", <<>>, id)
     ELSE Collection_init(items, id + ct)

\* Collection.all / any / none
Collection_all(self, id) == MapOp(self, "all", id)

Collection_any(self, id) == MapOp(self, "any", id)

\* none without the negation
Collection_none_NotNegated(self, id) == MapOp(self, "any", id)

Collection_none(self, id) == MapOp(self, "notany", id)

\* the position in xs (from 1) that the Python index k names
PyIndex(xs, k) == IF k >= 0 THEN k + 1 ELSE Len(xs) + k + 1

\* does xs[k] raise IndexError
IndexError(xs, k) == PyIndex(xs, k) < 1 \/ PyIndex(xs, k) > Len(xs)

\* the slice start::step, 0 <= start and 1 <= step
SliceV(start, step) == V("slice", start, <<IntV(step)>>, 0)

\* xs[start::step]
SliceOf(xs, key) ==
  LET start == key.n
      step == key.xs[1].n
      picked == {i \in 1..Len(xs) : i > start /\ (i - start - 1) % step = 0}
  IN [j \in 1..Cardinality(picked) |-> xs[start + 1 + (j - 1) * step]]

\* operator.itemgetter(key)(value)
ItemGetter(key, v, id) ==
  IF v.t \notin {"list", "tuple"}
  THEN Raise("TypeError", "object is not subscriptable", <<v>>, id)
  ELSE IF key.t = "slice" THEN Ok([v EXCEPT !.xs = SliceOf(v.xs, key)], <<v>>, id)
  ELSE IF IndexError(v.xs, key.n)
  THEN Raise("IndexError", "index out of range", <<v>>, id)
  ELSE Ok(v.xs[PyIndex(v.xs, key.n)], <<v>>, id)

\* Wrapper.__getitem__: self.map(operator.itemgetter(key))
Wrapper_getitem(self, key, id) ==
  IF IsNull(self) THEN BaseNull_map(self, "itemgetter", id)
  ELSE LET r == WrapOutcome(ItemGetter(key, Held(self), id))
       IN [r EXCEPT !.calls = <<>>]

\* integer indexing that lets the IndexError of the list through
Collection_getitem_Raises(self, key, id) ==
  IF key.t = "int"
  THEN IF IndexError(self.xs, key.n)
       THEN Raise("IndexError", "list index out of range", <<>>, id)
       ELSE Ok(self.xs[PyIndex(self.xs, key.n)], <<>>, id)
  ELSE Collection_init(SliceOf(self.xs, key), id)

\* Collection.__getitem__
Collection_getitem(self, key, id) ==
  IF key.t = "int"
  THEN IF IndexError(self.xs, key.n)
       THEN Ok(MkNull("NullNode", id), <<>>, id + 1)
       ELSE Ok(self.xs[PyIndex(self.xs, key.n)], <<>>, id)
  ELSE Collection_init(SliceOf(self.xs, key), id)

\* Collection.first
Collection_first(self, id) == Collection_getitem(self, IntV(0), id)

\* NullCollection.__getitem__ and first
NullCollection_getitem(self, key, id) ==
  IF key.t = "int" THEN Ok(MkNull("NullNode", id), <<>>, id + 1)
  ELSE Ok(self, <<>>, id)

NullCollection_first(self, id) == Ok(MkNull("NullNode", id), <<>>, id + 1)

\* self[key] on the receiver's class
GetItemOp(x, key, id) ==
  CASE x.t = "Collection" -> Collection_getitem(x, key, id)
    [] x.t = "NullCollection" -> NullCollection_getitem(x, key, id)
    [] OTHER -> Wrapper_getitem(x, key, id)

FirstOp(x, id) ==
  IF x.t = "NullCollection" THEN NullCollection_first(x, id)
  ELSE Collection_first(x, id)

\* the sequence xs reversed
Reverse(xs) == [i \in 1..Len(xs) |-> xs[Len(xs) + 1 - i]]

\* each's tupler: Scalar(tuple(_unwrap(func(item)) for func in funcs)), the
\* functions called in order until one raises or returns a null wrapper
RECURSIVE Tupler(_, _, _, _, _)
Tupler(funcs, item, acc, calls, id) ==
  IF funcs = <<>> THEN Ok(Scalar(TupleV(acc), id), calls, id + 1)
  ELSE LET r == CallFn(MakeCallable(Head(funcs)), item, id)
           u == Unwrap(r.val)
       IN IF ~ r.ok THEN Raise(r.exc.cls, r.exc.msg, calls \o r.calls, r.n)
          ELSE IF ~ u.ok THEN Raise(u.cls, "", calls \o r.calls, r.n)
          ELSE Tupler(Tail(funcs), item, Append(acc, u.val),
                      calls \o r.calls, r.n)

\* list(map(func, items)), func being the one function given or the tupler
RECURSIVE MapItems(_, _, _, _, _)
MapItems(funcs, items, acc, calls, id) ==
  IF items = <<>> THEN Ok(ListV(acc), calls, id)
  ELSE LET r == IF Len(funcs) = 1
                THEN CallFn(MakeCallable(funcs[1]), Head(items), id)
                ELSE Tupler(funcs, Head(items), <<>>, <<>>, id)
       IN IF ~ r.ok THEN Raise(r.exc.cls, r.exc.msg, calls \o r.calls, r.n)
          ELSE MapItems(funcs, Tail(items), Append(acc, r.val),
                        calls \o r.calls, r.n)

\* each that hands the functions to the tupler in reverse
Collection_each_Reversed(self, funcs, id) ==
  LET m == MapItems(Reverse(funcs), self.xs, <<>>, <<>>, id)
  IN IF ~ m.ok THEN m
     ELSE [Collection_init(m.val.xs, m.n) EXCEPT !.calls = m.calls]

\* Collection.each(*funcs)
Collection_each(self, funcs, id) ==
  LET m == MapItems(funcs, self.xs, <<>>, <<>>, id)
  IN IF ~ m.ok THEN m
     ELSE [Collection_init(m.val.xs, m.n) EXCEPT !.calls = m.calls]

\* NullCollection.each(func): the signature takes exactly one function
NullCollection_each(self, funcs, id) ==
  IF Len(funcs) = 1 THEN Ok(self, <<>>, id)
  ELSE Raise("TypeError", "each() takes 2 positional arguments", <<>>, id)

EachOp(x, funcs, id) ==
  IF x.t = "NullCollection" THEN NullCollection_each(x, funcs, id)
  ELSE Collection_each(x, funcs, id)

----------------------------------------------------------------------------
\* Comparison and arithmetic operators

CmpOps == {"gt", "ge", "lt", "le"}

EqOps == {"eq", "ne"}

ArithOps == {"add", "sub", "mul", "truediv", "floordiv", "mod", "pow"}

\* the symbol an Expression prints the operator with
Symbol(op) ==
  CASE op = "gt" -> ">" [] op = "ge" -> ">=" [] op = "lt" -> "<"
    [] op = "le" -> "<=" [] op = "eq" -> "==" [] op = "ne" -> "!="
    [] op = "add" -> "+" [] op = "sub" -> "-" [] op = "mul" -> "*"
    [] op = "truediv" -> "/" [] op = "floordiv" -> "//"
    [] op = "mod" -> "%" [] op = "pow" -> "**"

\* the operator Python tries on the right operand when the left operand's
\* type does not know the right one
Reflected(op) ==
  CASE op = "gt" -> "lt" [] op = "lt" -> "gt" [] op = "ge" -> "le"
    [] op = "le" -> "ge" [] op = "eq" -> "eq" [] op = "ne" -> "ne"

\* decimal digits of a number
RECURSIVE NatStr(_)
NatStr(n) ==
  LET d == CASE n % 10 = 0 -> "0" [] n % 10 = 1 -> "1" [] n % 10 = 2 -> "2"
             [] n % 10 = 3 -> "3" [] n % 10 = 4 -> "4" [] n % 10 = 5 -> "5"
             [] n % 10 = 6 -> "6" [] n % 10 = 7 -> "7" [] n % 10 = 8 -> "8"
             [] n % 10 = 9 -> "9"
  IN IF n < 10 THEN d ELSE NatStr(n \div 10) \o d

IntStr(n) == IF n < 0 THEN "-" \o NatStr(-n) ELSE NatStr(n)

\* repr(value) of a plain value
RECURSIVE Repr(_), ReprSeq(_)
Repr(v) ==
  CASE v.t = "int" -> IntStr(v.n)
    [] v.t = "bool" -> IF v.n = 1 THEN "True" ELSE "False"
    [] v.t = "float" -> IntStr(v.n) \o ".0"
    [] v.t = "none" -> "None"
    [] v.t = "list" -> "[" \o ReprSeq(v.xs) \o "]"
    [] v.t = "tuple" ->
         "(" \o ReprSeq(v.xs) \o (IF Len(v.xs) = 1 THEN ",)" ELSE ")")
ReprSeq(xs) ==
  IF xs = <<>> THEN ""
  ELSE IF Len(xs) = 1 THEN Repr(xs[1])
  ELSE Repr(xs[1]) \o ", " \o ReprSeq(Tail(xs))

IsNum(v) == v.t \in {"int", "bool", "float"}

\* x ** y for whole numbers, 0 <= y
RECURSIVE Power(_, _)
Power(x, y) == IF y = 0 THEN 1 ELSE x * Power(x, y - 1)

\* the number a whole-number operation gives: a float if an operand is one
NumV(x, y, n) == IF "float" \in {x.t, y.t} THEN FloatV(n) ELSE IntV(n)

\* operator.op(x, y) on plain values; the numbers met are whole and the
\* right operands 0 and 1
PlainBin(op, x, y, id) ==
  IF op = "eq"
  THEN Ok(BoolV(IF IsNum(x) /\ IsNum(y) THEN x.n = y.n ELSE x = y), <<>>, id)
  ELSE IF op = "ne"
  THEN Ok(BoolV(IF IsNum(x) /\ IsNum(y) THEN x.n # y.n ELSE x # y), <<>>, id)
  ELSE IF op = "mul" /\ x.t = "list" /\ y.t = "int"
  THEN Ok(ListV(IF y.n >= 1 THEN x.xs ELSE <<>>), <<>>, id)
  ELSE IF op = "add" /\ x.t = "list" /\ y.t = "list"
  THEN Ok(ListV(x.xs \o y.xs), <<>>, id)
  ELSE IF ~ (IsNum(x) /\ IsNum(y))
  THEN Raise("TypeError", "unsupported operand type(s)", <<>>, id)
  ELSE IF op \in {"truediv", "floordiv", "mod"} /\ y.n = 0
  THEN Raise("ZeroDivisionError",
             CASE op = "truediv" -> "division by zero"
               [] op = "floordiv" -> "integer division or modulo by zero"
               [] op = "mod" -> "integer modulo by zero",
             <<>>, id)
  ELSE CASE op = "gt" -> Ok(BoolV(x.n > y.n), <<>>, id)
         [] op = "ge" -> Ok(BoolV(x.n >= y.n), <<>>, id)
         [] op = "lt" -> Ok(BoolV(x.n < y.n), <<>>, id)
         [] op = "le" -> Ok(BoolV(x.n <= y.n), <<>>, id)
         [] op = "add" -> Ok(NumV(x, y, x.n + y.n), <<>>, id)
         [] op = "sub" -> Ok(NumV(x, y, x.n - y.n), <<>>, id)
         [] op = "mul" -> Ok(NumV(x, y, x.n * y.n), <<>>, id)
         [] op = "pow" -> Ok(NumV(x, y, Power(x.n, y.n)), <<>>, id)
         [] op = "truediv" -> Ok(FloatV(x.n \div y.n), <<>>, id)
         [] op = "floordiv" -> Ok(NumV(x, y, x.n \div y.n), <<>>, id)
         [] op = "mod" -> Ok(NumV(x, y, x.n % y.n), <<>>, id)

\* _helpful_failure around BinaryOp.eval_: an exception of the same class
\* whose message names the value (its repr, short here) and the expression
\* Q <symbol> right
HelpfulBin(op, val, right, r) ==
  IF r.ok THEN r
  ELSE Raise(r.exc.cls,
             r.exc.msg \o "\n\n\tEncountered when evaluating " \o Repr(val)
               \o "Q " \o Symbol(op) \o " " \o Repr(right),
             r.calls, r.n)

\* Null.__gt__ ... __truediv__: Null(); BaseNull.__eq__, __ne__: type(self)()
Null_binop(self, op, other, id) ==
  IF op \in EqOps THEN Ok(MkNull(self.t, id), <<>>, id + 1)
  ELSE Ok(MkNull("Null", id), <<>>, id + 1)

\* x <op> other for the plain value x a Scalar holds and any operand: when
\* the operand is a wrapper, x's type gives way to the operand's reflected
\* operator (Null and Scalar define the comparisons, every wrapper == and !=)
ValueBin(op, x, other, id) ==
  IF ~ IsWrapper(other) THEN PlainBin(op, x, other, id)
  ELSE IF other.t = "Null" \/ (IsNull(other) /\ op \in EqOps)
  THEN Null_binop(other, Reflected(op), x, id)
  ELSE IF ~ IsNull(other) /\ (other.t = "Scalar" \/ op \in EqOps)
  THEN WrapOutcome(PlainBin(Reflected(op), Held(other), x, id))
  ELSE Raise("TypeError", "not supported between instances", <<>>, id)

\* the arithmetic operators without the isinstance(other, BaseNull) test
Scalar_binop_NoNullTest(self, op, other, id) ==
  IF op \in ArithOps
  THEN LET u == Unwrap(other)
       IN IF ~ u.ok THEN Raise(u.cls, "", <<>>, id)
          ELSE WrapOutcome(HelpfulBin(op, Held(self), u.val,
                                      PlainBin(op, Held(self), u.val, id)))
  ELSE WrapOutcome(ValueBin(op, Held(self), other, id))

\* Scalar.__gt__ ... __truediv__ and Some.__eq__, __ne__
Scalar_binop(self, op, other, id) ==
  IF op \in ArithOps
  THEN IF IsNull(other) THEN Ok(other, <<>>, id)
       ELSE LET u == Unwrap(other)
            IN IF ~ u.ok THEN Raise(u.cls, "", <<>>, id)
               ELSE WrapOutcome(HelpfulBin(op, Held(self), u.val,
                                           PlainBin(op, Held(self), u.val, id)))
  ELSE WrapOutcome(ValueBin(op, Held(self), other, id))

BinOpOp(x, op, other, id) ==
  IF x.t = "Null" THEN Null_binop(x, op, other, id)
  ELSE Scalar_binop(x, op, other, id)

----------------------------------------------------------------------------
\* dump

\* the keyword names handed to dump(...), in the order they are given
Names == <<"a", "b", "c">>

\* a null result stored as None instead of being unwrapped
DumpValue_NullAsNone(a) ==
  IF IsNull(a) THEN [ok |-> TRUE, val |-> NoneV, cls |-> ""] ELSE Unwrap(a)

\* _unwrap(self.apply(func)), given what apply returned
DumpValue(a) == Unwrap(a)

\* dict((name, _unwrap(self.apply(func))) for name, func in kwargs.items()),
\* names being the numbers of the keyword names in Names
RECURSIVE DumpEntries(_, _, _, _, _, _)
DumpEntries(self, names, funcs, acc, calls, id) ==
  IF funcs = <<>> THEN Ok(DictV(acc), calls, id)
  ELSE LET a == ApplyOp(self, Head(funcs), id)
           u == DumpValue(a.val)
       IN IF ~ a.ok THEN Raise(a.exc.cls, a.exc.msg, calls \o a.calls, a.n)
          ELSE IF ~ u.ok THEN Raise(u.cls, "", calls \o a.calls, a.n)
          ELSE DumpEntries(self, Tail(names), Tail(funcs),
                           Append(acc, TupleV(<<StrV(Head(names)), u.val>>)),
                           calls \o a.calls, a.n)

\* Wrapper.dump(**kwargs), which Scalar, Node and Null inherit
Wrapper_dump(self, names, funcs, id) ==
  LET d == DumpEntries(self, names, funcs, <<>>, <<>>, id)
  IN IF d.ok THEN Ok(Wrap(d.val, d.n), d.calls, WrapNext(d.val, d.n)) ELSE d

NullNode_dump(self, names, funcs, id) == Ok(MkNull("Null", id), <<>>, id + 1)

NullCollection_dump(self, names, funcs, id) ==
  Ok(MkNull("NullCollection", id), <<>>, id + 1)

\* _helpful_failure around Q.dump(**kwargs) evaluated on an item: the same
\* class of exception; its message goes on with the repr of the item and of
\* the call's arguments (the functions' addresses), left out here
HelpfulDump(r) ==
  IF r.ok THEN r
  ELSE Raise(r.exc.cls, r.exc.msg \o "\n\n\tEncountered when evaluating ",
             r.calls, r.n)

\* x.dump(**kwargs) on the receiver's class; Collection.dump is
\* self.each(Q.dump(**kwargs))
RECURSIVE DumpOp(_, _, _, _), DumpItems(_, _, _, _, _, _)
DumpOp(x, names, funcs, id) ==
  CASE x.t = "NullNode" -> NullNode_dump(x, names, funcs, id)
    [] x.t = "NullCollection" -> NullCollection_dump(x, names, funcs, id)
    [] x.t = "Collection" ->
         LET m == DumpItems(x.xs, names, funcs, <<>>, <<>>, id)
         IN IF ~ m.ok THEN m
            ELSE [Collection_init(m.val.xs, m.n) EXCEPT !.calls = m.calls]
    [] OTHER -> Wrapper_dump(x, names, funcs, id)
DumpItems(items, names, funcs, acc, calls, id) ==
  IF items = <<>> THEN Ok(ListV(acc), calls, id)
  ELSE LET r == IF IsWrapper(Head(items))
                THEN HelpfulDump(DumpOp(Head(items), names, funcs, id))
                ELSE HelpfulDump(Raise("AttributeError",
                                       "object has no attribute 'dump'",
                                       <<>>, id))
       IN IF ~ r.ok THEN Raise(r.exc.cls, r.exc.msg, calls \o r.calls, r.n)
          ELSE DumpItems(Tail(items), names, funcs, Append(acc, r.val),
                         calls \o r.calls, r.n)

----------------------------------------------------------------------------
\* either

\* either(*funcs)(val): the functions are applied in order until a result
\* is truthy
RECURSIVE EitherFn(_, _, _, _)
EitherFn(val, funcs, calls, id) ==
  IF funcs = <<>> THEN Ok(MkNull("Null", id), calls, id + 1)
  ELSE LET a == ApplyOp(val, Head(funcs), id)
       IN IF ~ a.ok THEN Raise(a.exc.cls, a.exc.msg, calls \o a.calls, a.n)
          ELSE IF Truthy(a.val) THEN Ok(a.val, calls \o a.calls, a.n)
          ELSE EitherFn(val, Tail(funcs), calls \o a.calls, a.n)

\* either that tries the functions from the last to the first
Either_LastFirst(val, funcs, id) == EitherFn(val, Reverse(funcs), <<>>, id)

Either(val, funcs, id) == EitherFn(val, funcs, <<>>, id)

----------------------------------------------------------------------------
\* Node: navigation through the tree adapter (BeautifulSoup)

SingleProps == {"parent", "next_sibling", "previous_sibling"}

SingleFinds ==
  {"find", "find_parent", "find_next_sibling", "find_previous_sibling"}

MultiProps ==
  {"children", "contents", "descendants", "parents", "next_siblings",
   "previous_siblings"}

MultiFinds ==
  {"find_all", "find_parents", "find_next_siblings",
   "find_previous_siblings", "select"}

ScalarProps == {"attrs", "text", "name"}

\* the value is an element of the tree adapter
IsElement(value) == value.t \in {"tag", "navstr"}

\* Node._wrap_node, val being what the adapter returned
Node_wrap_node(val, id) ==
  IF val = NoneV THEN Ok(MkNull("NullNode", id), <<>>, id + 1)
  ELSE Ok(NodeNew(val, id), <<>>, id + 1)

\* _wrap_multi that turns an empty result into NullCollection
Node_wrap_multi_NullWhenEmpty(vals, id) ==
  IF vals.xs = <<>> THEN Ok(MkNull("NullCollection", id), <<>>, id + 1)
  ELSE Collection_init([i \in 1..Len(vals.xs) |-> NodeNew(vals.xs[i], id + i - 1)],
                       id + Len(vals.xs))

\* Node._wrap_multi: Collection(map(Node, vals))
Node_wrap_multi(vals, id) ==
  Collection_init([i \in 1..Len(vals.xs) |-> NodeNew(vals.xs[i], id + i - 1)],
                  id + Len(vals.xs))

\* Node._wrap_scalar
Node_wrap_scalar(val, id) == Ok(Scalar(val, id), <<>>, id + 1)

\* the leaf class with find left to the adapter
LeafOverrides_NoFind ==
  {"attrs", "text", "name", "children", "contents", "descendants",
   "find_all", "select"}

\* the properties and methods NavigableStringNode overrides
LeafOverrides ==
  {"attrs", "text", "name", "children", "contents", "descendants", "find",
   "find_all", "select"}

\* a property or search of Node, val being what the adapter returns for it
Node_nav(self, name, val, id) ==
  IF ~ IsElement(Held(self))
  THEN Raise("AttributeError", "object has no attribute", <<>>, id)
  ELSE IF name \in SingleProps \cup SingleFinds THEN Node_wrap_node(val, id)
  ELSE IF name \in MultiProps \cup MultiFinds THEN Node_wrap_multi(val, id)
  ELSE Node_wrap_scalar(val, id)

\* NavigableStringNode: what it overrides, and Node's for the rest
NavigableStringNode_nav(self, name, val, id) ==
  IF name \notin LeafOverrides THEN Node_nav(self, name, val, id)
  ELSE CASE name = "attrs" -> Ok(Scalar(DictV(<<>>), id), <<>>, id + 1)
         [] name = "text" -> Ok(Scalar(Held(self), id), <<>>, id + 1)
         [] name = "name" -> Ok(Scalar(StrV(0), id), <<>>, id + 1)
         [] name = "find" -> Ok(MkNull("NullNode", id), <<>>, id + 1)
         [] OTHER -> Collection_init(<<>>, id)

\* NullNode: its properties and searches
NullNode_nav(self, name, id) ==
  IF name \in SingleProps \cup SingleFinds
  THEN Ok(MkNull("NullNode", id), <<>>, id + 1)
  ELSE IF name \in MultiProps \cup MultiFinds
  THEN Ok(MkNull("NullCollection", id), <<>>, id + 1)
  ELSE Ok(MkNull("Null", id), <<>>, id + 1)

NavOp(x, name, val, id) ==
  CASE x.t = "NullNode" -> NullNode_nav(x, name, id)
    [] x.t = "NavigableStringNode" -> NavigableStringNode_nav(x, name, val, id)
    [] OTHER -> Node_nav(x, name, val, id)

----------------------------------------------------------------------------
\* Collection: filter, takewhile, dropwhile, count

\* filter(func, items): func is called on every item, those with a truthy
\* result are kept
RECURSIVE FilterItems(_, _, _, _, _)
FilterItems(f, items, acc, calls, id) ==
  IF items = <<>> THEN Ok(ListV(acc), calls, id)
  ELSE LET r == CallFn(MakeCallable(f), Head(items), id)
       IN IF ~ r.ok THEN Raise(r.exc.cls, r.exc.msg, calls \o r.calls, r.n)
          ELSE FilterItems(f, Tail(items),
                           IF Truthy(r.val) THEN Append(acc, Head(items)) ELSE acc,
                           calls \o r.calls, r.n)

\* itertools.takewhile(func, items): func is called up to the first item
\* with a falsy result, the items before it are kept
RECURSIVE TakeItems(_, _, _, _, _)
TakeItems(f, items, acc, calls, id) ==
  IF items = <<>> THEN Ok(ListV(acc), calls, id)
  ELSE LET r == CallFn(MakeCallable(f), Head(items), id)
       IN IF ~ r.ok THEN Raise(r.exc.cls, r.exc.msg, calls \o r.calls, r.n)
          ELSE IF ~ Truthy(r.val) THEN Ok(ListV(acc), calls \o r.calls, r.n)
          ELSE TakeItems(f, Tail(items), Append(acc, Head(items)),
                         calls \o r.calls, r.n)

\* itertools.dropwhile(func, items): func is called up to the first item
\* with a falsy result, that item and those after it are kept
RECURSIVE DropItems(_, _, _, _)
DropItems(f, items, calls, id) ==
  IF items = <<>> THEN Ok(ListV(<<>>), calls, id)
  ELSE LET r == CallFn(MakeCallable(f), Head(items), id)
       IN IF ~ r.ok THEN Raise(r.exc.cls, r.exc.msg, calls \o r.calls, r.n)
          ELSE IF ~ Truthy(r.val) THEN Ok(ListV(items), calls \o r.calls, r.n)
          ELSE DropItems(f, Tail(items), calls \o r.calls, r.n)

\* Collection(kept), kept being what the iteration over the items gave
CollectionOf(m) ==
  IF ~ m.ok THEN m
  ELSE [Collection_init(m.val.xs, m.n) EXCEPT !.calls = m.calls]

Collection_filter(self, f, id) ==
  CollectionOf(FilterItems(f, self.xs, <<>>, <<>>, id))

Collection_takewhile(self, f, id) ==
  CollectionOf(TakeItems(f, self.xs, <<>>, <<>>, id))

Collection_dropwhile(self, f, id) ==
  CollectionOf(DropItems(f, self.xs, <<>>, id))

\* Collection.count: Scalar(len(self)), len(self) being self.map(len).val()
Collection_count(self, id) == Ok(Scalar(IntV(Len(self.xs)), id + 1), <<>>, id + 2)

\* NullCollection: filter, takewhile and dropwhile return self
NullCollection_filter(self, f, id) == Ok(self, <<>>, id)

NullCollection_takewhile(self, f, id) == Ok(self, <<>>, id)

NullCollection_dropwhile(self, f, id) == Ok(self, <<>>, id)

\* count that goes through len(self) as Collection's does
NullCollection_count_Inherited(self, id) ==
  Raise("NullValueError", "", <<>>, id)

NullCollection_count(self, id) == Ok(Scalar(IntV(0), id), <<>>, id + 1)

FilterOp(x, f, id) ==
  IF x.t = "NullCollection" THEN NullCollection_filter(x, f, id)
  ELSE Collection_filter(x, f, id)

TakewhileOp(x, f, id) ==
  IF x.t = "NullCollection" THEN NullCollection_takewhile(x, f, id)
  ELSE Collection_takewhile(x, f, id)

DropwhileOp(x, f, id) ==
  IF x.t = "NullCollection" THEN NullCollection_dropwhile(x, f, id)
  ELSE Collection_dropwhile(x, f, id)

CountOp(x, id) ==
  IF x.t = "NullCollection" THEN NullCollection_count(x, id)
  ELSE Collection_count(x, id)

----------------------------------------------------------------------------
\* len(self), iteration and dictzip

\* Scalar.__len__: len(self._value)
Scalar_len(self, id) ==
  IF Sized(Held(self)) THEN Ok(IntV(Len(Held(self).xs)), <<>>, id)
  ELSE Raise("TypeError", "object has no len()", <<>>, id)

\* Collection.__len__: self.map(len).val()
Collection_len(self, id) ==
  IF IsNull(self) THEN BaseNull_val(BaseNull_map(self, "len", id).val, id)
  ELSE Ok(IntV(Len(self.xs)), <<>>, id)

Null_len(self, id) == Raise("TypeError", "Null has no len()", <<>>, id)

NullNode_len(self, id) == Ok(IntV(0), <<>>, id)

\* len(x) on the receiver's class; NullCollection inherits Collection's
LenOp(x, id) ==
  CASE x.t = "Null" -> Null_len(x, id)
    [] x.t = "NullNode" -> NullNode_len(x, id)
    [] x.t \in {"Collection", "NullCollection"} -> Collection_len(x, id)
    [] OTHER -> Scalar_len(x, id)

\* Collection.__iter__, which NullCollection inherits: the items of
\* self._items in order; NullCollection.__init__ never sets _items
Collection_iter(self, id) ==
  IF self.t = "NullCollection"
  THEN Raise("AttributeError",
             "'NullCollection' object has no attribute '_items'", <<>>, id)
  ELSE Ok(ListV(self.xs), <<>>, id)

\* Collection.dictzip(keys), which NullCollection inherits:
\* Scalar(dict(zip(_unwrap(keys), self.val())))
Collection_dictzip(self, keys, id) ==
  LET k == Unwrap(keys)
      v == ValOp(self, id)
      n == IF Len(k.val.xs) < Len(v.val.xs) THEN Len(k.val.xs)
           ELSE Len(v.val.xs)
  IN IF ~ k.ok THEN Raise(k.cls, "", <<>>, id)
     ELSE IF ~ v.ok THEN v
     ELSE Ok(Scalar(DictV([i \in 1..n |->
                             TupleV(<<k.val.xs[i], v.val.xs[i]>>)]), id),
             <<>>, id + 1)

----------------------------------------------------------------------------
\* Attribute access and calls

\* the attribute names met: a method every wrapper has, a name that nothing
\* defines, and the two methods the library itself asks for through Q
AttrNames == <<"val", "foo", "__setitem__", "dump">>

AttrIndex(name) == CHOOSE k \in 1..Len(AttrNames) : AttrNames[k] = name

\* the bound method self.<AttrNames[k]>
Method(k, self) == V("method", k, <<self>>, 0)

\* type(value).__name__
TypeName(v) ==
  CASE v.t = "none" -> "NoneType"
    [] v.t = "tag" -> "Tag"
    [] v.t = "navstr" -> "NavigableString"
    [] OTHER -> v.t

\* the AttributeError of a value whose type does not define the name (a
\* bound method answers for its function)
NoAttribute(v, name, id) ==
  Raise("AttributeError",
        "'" \o (IF v.t = "method" THEN "function" ELSE TypeName(v))
          \o "' object has no attribute '" \o name \o "'",
        <<>>, id)

\* Null.__getattr__
Null_getattr(self, name, id) == Ok(MkNull("Null", id), <<>>, id + 1)

\* Scalar.__getattr__: self.map(operator.attrgetter(attr))
Scalar_getattr(self, name, id) == NoAttribute(Held(self), name, id)

\* getattr(value, AttrNames[k]): the class's own attribute, else __getattr__
\* where the class defines one
GetAttrOp(v, k, id) ==
  IF IsWrapper(v) /\ AttrNames[k] = "val" THEN Ok(Method(k, v), <<>>, id)
  ELSE IF v.t = "Null" THEN Null_getattr(v, AttrNames[k], id)
  ELSE IF v.t = "Scalar" THEN Scalar_getattr(v, AttrNames[k], id)
  ELSE NoAttribute(v, AttrNames[k], id)

\* Null.__call__
Null_call(self, id) == Ok(MkNull("Null", id), <<>>, id + 1)

\* NodeLike.__call__ on a NullNode: self.find_all(...)
NullNode_call(self, id) == NullNode_nav(self, "find_all", id)

\* Scalar.__call__: self.map(operator.methodcaller('__call__', ...))
Scalar_call(self, id) == NoAttribute(Held(self), "__call__", id)

\* value.__call__(): a bound method runs on its object
CallOp(v, id) ==
  CASE v.t = "method" -> ValOp(v.xs[1], id)
    [] v.t = "Null" -> Null_call(v, id)
    [] v.t = "NullNode" -> NullNode_call(v, id)
    [] v.t = "Scalar" -> Scalar_call(v, id)
    [] OTHER -> NoAttribute(v, "__call__", id)

----------------------------------------------------------------------------
\* Expressions: Q and what is built from it

\* Q itself, an Expression
Identity == V("Expression", 0, <<>>, 0)

\* Attr(AttrNames[k]), GetItem(key), Call(args, kwargs) and Chain(items)
AttrOf(k) == V("Attr", k, <<>>, 0)

GetItemOf(key) == V("GetItem", 0, <<key>>, 0)

CallOf(args, kwargs) == V("Call", 0, <<TupleV(args), DictV(kwargs)>>, 0)

ChainOf(items) == V("Chain", 0, items, 0)

OpNames ==
  <<"gt", "ge", "lt", "le", "eq", "ne", "add", "sub", "mul", "truediv",
    "floordiv", "mod", "pow">>

\* BinaryOp(operator.<op>, symbol, left, right)
BinaryOpOf(op, left, right) ==
  V("BinaryOp", CHOOSE i \in 1..Len(OpNames) : OpNames[i] = op,
    <<left, right>>, 0)

IsExpr(v) ==
  v.t \in {"Expression", "Attr", "GetItem", "Call", "BinaryOp", "Chain"}

\* Expression.__iter__ and Chain.__iter__
Expression_iter(self) == IF self.t = "Chain" THEN self.xs ELSE <<self>>

\* _chain that keeps the left operand whole
Expression_chain_Nested(self, other) ==
  ChainOf(<<self>> \o Expression_iter(other))

\* _chain that puts the right operand first
Expression_chain_Swapped(self, other) ==
  ChainOf(Expression_iter(other) \o Expression_iter(self))

\* Expression._chain
Expression_chain(self, other) ==
  ChainOf(Expression_iter(self) \o Expression_iter(other))

\* Expression.__getattr__, __getitem__ and __call__
Expression_getattr(self, k) == Expression_chain(self, AttrOf(k))

Expression_getitem(self, key) == Expression_chain(self, GetItemOf(key))

Expression_call(self, args, kwargs) ==
  Expression_chain(self, CallOf(args, kwargs))

\* Expression.__gt__ ... __mod__
Expression_binop(self, op, other) == BinaryOpOf(op, self, other)

\* the number of expression objects an expression is made of
RECURSIVE Size(_), SizeSeq(_)
Size(e) ==
  CASE e.t = "Chain" -> SizeSeq(e.xs)
    [] e.t = "BinaryOp" -> 1 + SizeSeq(e.xs)
    [] IsExpr(e) -> 1
    [] OTHER -> 0
SizeSeq(xs) == IF xs = <<>> THEN 0 ELSE Size(Head(xs)) + SizeSeq(Tail(xs))

\* the string value beyond Names: it's, whose repr takes double quotes
AposV == StrV(Len(Names) + 1)

\* the text of a string, apos being what stands for an apostrophe
TextQ(s, apos) ==
  IF s.n = 0 THEN ""
  ELSE IF s.n <= Len(Names) THEN Names[s.n]
  ELSE "it" \o apos \o "s"

\* does repr(value) hold a double quote: a string with an apostrophe in it
RECURSIVE HasApos(_)
HasApos(v) ==
  \/ v.t = "str" /\ v.n > Len(Names)
  \/ \E i \in 1..Len(v.xs) : HasApos(v.xs[i])

\* repr(value), apos being what stands for an apostrophe
RECURSIVE ReprQ(_, _), ReprSeqQ(_, _)
ReprQ(v, apos) ==
  CASE v.t = "str" ->
         IF v.n > Len(Names) THEN "\"" \o TextQ(v, apos) \o "\""
         ELSE apos \o TextQ(v, apos) \o apos
    [] v.t = "list" -> "[" \o ReprSeqQ(v.xs, apos) \o "]"
    [] v.t = "dict" -> "{" \o ReprSeqQ(v.xs, apos) \o "}"
    [] v.t = "tuple" ->
         ReprQ(v.xs[1], apos) \o ": " \o ReprQ(v.xs[2], apos)
    [] v.t = "method" /\ IsWrapper(v.xs[1]) ->
         "<bound method "
           \o (IF IsNull(v.xs[1]) THEN "BaseNull"
               ELSE IF v.xs[1].t = "Collection" THEN "Collection" ELSE "Some")
           \o "." \o AttrNames[v.n] \o " of " \o ReprQ(v.xs[1], apos) \o ">"
    [] v.t = "method" ->                   \* the object's address left out
         "<method-wrapper '" \o AttrNames[v.n] \o "' of "
           \o TypeName(v.xs[1]) \o " object>"
    [] v.t = "function" -> "<function>"    \* its name and address left out
    [] IsNull(v) -> v.t \o "()"
    [] v.t = "Collection" -> "Collection([" \o ReprSeqQ(v.xs, apos) \o "])"
    [] IsWrapper(v) -> v.t \o "(" \o ReprQ(Held(v), apos) \o ")"
    [] OTHER -> Repr(v)
ReprSeqQ(xs, apos) ==
  IF xs = <<>> THEN ""
  ELSE IF Len(xs) = 1 THEN ReprQ(xs[1], apos)
  ELSE ReprQ(xs[1], apos) \o ", " \o ReprSeqQ(Tail(xs), apos)

\* _uniquote(value): str(value), in quotes if value is a string
UniquoteQ(v, apos) ==
  IF v.t = "str" THEN apos \o TextQ(v, apos) \o apos ELSE ReprQ(v, apos)

\* ', '.join(map(_uniquote, values))
RECURSIVE UniquoteSeqQ(_, _)
UniquoteSeqQ(xs, apos) ==
  IF xs = <<>> THEN ""
  ELSE IF Len(xs) = 1 THEN UniquoteQ(xs[1], apos)
  ELSE UniquoteQ(xs[1], apos) \o ", " \o UniquoteSeqQ(Tail(xs), apos)

\* Expression.__str__ and its overrides in Attr, GetItem, Call, BinaryOp and
\* Chain
RECURSIVE StrQ(_, _), StrSeqQ(_, _)
StrQ(e, apos) ==
  LET operand(x) ==
        IF x.t = "BinaryOp" THEN "(" \o StrQ(x, apos) \o ")"
        ELSE IF IsExpr(x) THEN StrQ(x, apos)
        ELSE IF x.t = "str" THEN TextQ(x, apos)
        ELSE ReprQ(x, apos)
  IN CASE e.t = "Expression" -> "Q"
       [] e.t = "Attr" -> "." \o AttrNames[e.n]
       [] e.t = "GetItem" -> "[" \o UniquoteQ(e.xs[1], apos) \o "]"
       [] e.t = "Call" ->
            "(" \o UniquoteSeqQ(e.xs[1].xs, apos)
              \o (IF e.xs[1].xs # <<>> /\ e.xs[2].xs # <<>> THEN ", " ELSE "")
              \o (IF e.xs[2].xs # <<>> THEN "**" \o ReprQ(e.xs[2], apos)
                  ELSE "")
              \o ")"
       [] e.t = "BinaryOp" ->
            operand(e.xs[1]) \o " " \o Symbol(OpNames[e.n]) \o " "
              \o operand(e.xs[2])
       [] e.t = "Chain" -> StrSeqQ(e.xs, apos)
StrSeqQ(xs, apos) ==
  IF xs = <<>> THEN "" ELSE StrQ(Head(xs), apos) \o StrSeqQ(Tail(xs), apos)

Str(e) == StrQ(e, "'")

----------------------------------------------------------------------------
\* Expression evaluation and the diagnostics record

\* Q.__debug_info__: unset until an eval_ fails
QDebug(expr, inner_expr, val, inner_val) ==
  [set |-> TRUE, expr |-> expr, inner_expr |-> inner_expr, val |-> val,
   inner_val |-> inner_val]

NoDebug ==
  [set |-> FALSE, expr |-> NoneV, inner_expr |-> NoneV, val |-> NoneV,
   inner_val |-> NoneV]

\* what an evaluation gives: its outcome o, the diagnostics record d after it
\* and, of a failure, whether the exception carries _RERAISE
ER(o, d, marked) == [o |-> o, d |-> d, marked |-> marked]

\* the longest repr shown in a message
ReprLimit == 150

\* prettyval: repr(val), or the type's name when the repr is too long
PrettyQ(val, apos) ==
  IF Len(ReprQ(val, "'")) > ReprLimit THEN "<" \o TypeName(val) \o " instance>"
  ELSE ReprQ(val, apos)

\* what follows the original message
EncounteredQ(self, val, apos) ==
  "Encountered when evaluating " \o PrettyQ(val, apos) \o StrQ(self, apos)

\* QKeyError.__str__: the second part of the message goes through repr and
\* _dequote, which puts a backslash before each apostrophe when the part
\* holds a double quote as well
QKeyError_str(orig, self, val) ==
  orig \o "\n\n\t"
    \o EncounteredQ(self, val,
                    IF HasApos(val) /\ Len(ReprQ(val, "'")) <= ReprLimit
                    THEN "\\'" ELSE "'")

\* _helpful_failure that writes all four fields at every level
HelpfulFailure_Overwrites(self, val, r) ==
  IF r.o.ok THEN r
  ELSE IF r.marked THEN [r EXCEPT !.d = QDebug(self, self, val, val)]
  ELSE LET key == r.o.exc.cls = "KeyError"
           msg == IF key THEN QKeyError_str(r.o.exc.msg, self, val)
                  ELSE r.o.exc.msg \o "\n\n\t" \o EncounteredQ(self, val, "'")
       IN ER(Raise(IF key THEN "QKeyError" ELSE r.o.exc.cls, msg,
                   r.o.calls, r.o.n),
             QDebug(self, self, val, val), TRUE)

\* _helpful_failure that writes a message at every level
HelpfulFailure_Twice(self, val, r) ==
  IF r.o.ok THEN r
  ELSE LET key == r.o.exc.cls = "KeyError"
           msg == IF key THEN QKeyError_str(r.o.exc.msg, self, val)
                  ELSE r.o.exc.msg \o "\n\n\t" \o EncounteredQ(self, val, "'")
       IN ER(Raise(IF key THEN "QKeyError" ELSE r.o.exc.cls, msg,
                   r.o.calls, r.o.n),
             IF r.marked THEN QDebug(self, r.d.inner_expr, val, r.d.inner_val)
             ELSE QDebug(self, self, val, val),
             TRUE)

\* _helpful_failure that records the successful evaluations as well
HelpfulFailure_Always(self, val, r) ==
  IF r.o.ok THEN [r EXCEPT !.d = QDebug(self, self, val, val)]
  ELSE IF r.marked
  THEN [r EXCEPT !.d = QDebug(self, r.d.inner_expr, val, r.d.inner_val)]
  ELSE LET key == r.o.exc.cls = "KeyError"
           msg == IF key THEN QKeyError_str(r.o.exc.msg, self, val)
                  ELSE r.o.exc.msg \o "\n\n\t" \o EncounteredQ(self, val, "'")
       IN ER(Raise(IF key THEN "QKeyError" ELSE r.o.exc.cls, msg,
                   r.o.calls, r.o.n),
             QDebug(self, self, val, val), TRUE)

\* _helpful_failure around eval_: r is what the method gave for val
HelpfulFailure(self, val, r) ==
  IF r.o.ok THEN r
  ELSE IF r.marked
  THEN [r EXCEPT !.d = QDebug(self, r.d.inner_expr, val, r.d.inner_val)]
  ELSE LET key == r.o.exc.cls = "KeyError"
           msg == IF key THEN QKeyError_str(r.o.exc.msg, self, val)
                  ELSE r.o.exc.msg \o "\n\n\t" \o EncounteredQ(self, val, "'")
       IN ER(Raise(IF key THEN "QKeyError" ELSE r.o.exc.cls, msg,
                   r.o.calls, r.o.n),
             QDebug(self, self, val, val), TRUE)

\* operator.itemgetter(key)(val) on any value
GetItemValue(key, val, id) ==
  IF IsWrapper(val) THEN GetItemOp(val, key, id)
  ELSE IF val.t = "dict"
  THEN IF \E i \in 1..Len(val.xs) : val.xs[i].xs[1] = key
       THEN Ok(val.xs[CHOOSE i \in 1..Len(val.xs) : val.xs[i].xs[1] = key]
                 .xs[2], <<>>, id)
       ELSE Raise("KeyError", ReprQ(key, "'"), <<>>, id)
  ELSE IF key.t = "str" /\ val.t \in {"list", "tuple"}
  THEN Raise("TypeError",
             "list indices must be integers or slices, not str", <<>>, id)
  ELSE ItemGetter(key, val, id)

\* the record after Scalar arithmetic, which evaluates Q <op> other on the
\* value held
Scalar_binop_debug(self, op, other, d) ==
  LET u == Unwrap(other)
      inner == BinaryOpOf(op, Identity, u.val)
  IN IF self.t = "Scalar" /\ op \in ArithOps /\ ~ IsNull(other) /\ u.ok
        /\ ~ PlainBin(op, Held(self), u.val, 0).ok
     THEN QDebug(inner, inner, Held(self), Held(self))
     ELSE d

\* does left <op> right evaluate an expression of its own: Scalar arithmetic
\* evaluates Q <op> other on the value held
EvaluatesInside(op, left, right) ==
  /\ left.t = "Scalar" /\ op \in ArithOps
  /\ ~ IsNull(right) /\ Unwrap(right).ok

\* the steps taken inside left <op> right
InsideSteps(op, left, right) ==
  IF EvaluatesInside(op, left, right)
  THEN <<TupleV(<<BinaryOpOf(op, Identity, Unwrap(right).val), Held(left)>>)>>
  ELSE <<>>

\* self.op(left, right)
BinaryOp_op(op, left, right, d, id) ==
  IF left.t \in {"Scalar", "Null"}
  THEN LET o == BinOpOp(left, op, right, id)
       IN ER(o, Scalar_binop_debug(left, op, right, d),
             ~ o.ok /\ EvaluatesInside(op, left, right))
  ELSE IF IsWrapper(right) /\ op \in ArithOps  \* no wrapper reflects these
  THEN ER(Raise("TypeError", "unsupported operand type(s)", <<>>, id), d,
          FALSE)
  ELSE ER(ValueBin(op, left, right, id), d, FALSE)

\* an evaluation that failed ends there: what follows is not evaluated
Then_Swallows(r, next) ==
  IF r.o.ok THEN next
  ELSE ER(Ok(MkNull("Null", r.o.n), r.o.calls, r.o.n + 1), r.d, FALSE)

Then(r, next) == IF r.o.ok THEN next ELSE r

\* one evaluation step noted in the calls of an outcome, before the steps
\* taken inside it
Noted(e, val, inside, r) ==
  [r EXCEPT !.o.calls = <<TupleV(<<e, val>>)>> \o inside]

\* F(v), v being worked out once, before F uses it
Eager(v, F(_)) == CHOOSE y \in {F(x) : x \in {v}} : TRUE

\* Expression.eval_ and its overrides, each under _helpful_failure; the
\* calls of the outcome are the steps taken, in order
RECURSIVE Eval(_, _, _, _), Chain_eval(_, _, _, _, _)
Eval(e, val, d, id) ==
  LET operand(x, dd, n) ==
        IF IsExpr(x) THEN Eval(x, val, dd, n)
        ELSE ER(Ok(x, <<>>, n), dd, FALSE)
      after(r, s) == [s EXCEPT !.o.calls = r.o.calls \o s.o.calls]
      applied(l, r) ==
        after(r, Noted(e, val, InsideSteps(OpNames[e.n], l.o.val, r.o.val),
                       BinaryOp_op(OpNames[e.n], l.o.val, r.o.val, r.d,
                                   r.o.n)))
      right(l) ==
        Then(l, Eager(after(l, operand(e.xs[2], l.d, l.o.n)),
                      LAMBDA r : Then(r, applied(l, r))))
      body ==
        CASE e.t = "Expression" ->
               Noted(e, val, <<>>, ER(Ok(val, <<>>, id), d, FALSE))
          [] e.t = "Attr" ->
               Noted(e, val, <<>>, ER(GetAttrOp(val, e.n, id), d, FALSE))
          [] e.t = "GetItem" ->
               Noted(e, val, <<>>,
                     ER(GetItemValue(e.xs[1], val, id), d, FALSE))
          [] e.t = "Call" -> Noted(e, val, <<>>, ER(CallOp(val, id), d, FALSE))
          [] e.t = "BinaryOp" -> Eager(operand(e.xs[1], d, id), right)
          [] e.t = "Chain" -> Chain_eval(e.xs, val, d, <<>>, id)
  IN Eager(body, LAMBDA r : HelpfulFailure(e, val, r))
Chain_eval(items, val, d, calls, id) ==
  IF items = <<>> THEN ER(Ok(val, calls, id), d, FALSE)
  ELSE Eager(Eval(Head(items), val, d, id),
             LAMBDA r :
               LET s == [r EXCEPT !.o.calls = calls \o r.o.calls]
               IN Then(s, Chain_eval(Tail(items), r.o.val, r.d, s.o.calls,
                                     r.o.n)))

\* Expression.debug_: the record is an attribute of Q, which no other
\* expression object has; unset, or read from another expression, it reads
\* as four None
Expression_debug(self, d) ==
  IF self = Identity /\ d.set
  THEN V("QDebug", 0, <<d.expr, d.inner_expr, d.val, d.inner_val>>, 0)
  ELSE V("QDebug", 0, <<NoneV, NoneV, NoneV, NoneV>>, 0)

\* the functions handed to dump as the keyword arguments of Q.dump(**kwargs)
FuncNames == <<"ident", "zero", "mkNull">>

FuncV(f) ==
  V("function", CHOOSE i \in 1..Len(FuncNames) : FuncNames[i] = f, <<>>, 0)

\* the diagnostics record after x.dump(**kwargs): Collection.dump evaluates
\* Q.dump(**kwargs) on each item, up to the first that fails
DumpDebug(x, names, funcs, d) ==
  LET attr == AttrOf(AttrIndex("dump"))
      call == CallOf(<<>>, [i \in 1..Len(funcs) |->
                             TupleV(<<StrV(names[i]), FuncV(funcs[i])>>)])
      expr == ChainOf(<<Identity, attr, call>>)
      bad == {i \in 1..Len(x.xs) :
                \/ ~ IsWrapper(x.xs[i])
                \/ ~ DumpOp(x.xs[i], names, funcs, 0).ok}
      item == x.xs[Least(bad)]
  IN IF x.t # "Collection" \/ bad = {} THEN d
     ELSE IF IsWrapper(item)
     THEN QDebug(expr, call, item, Method(AttrIndex("dump"), item))
     ELSE QDebug(expr, attr, item, item)

----------------------------------------------------------------------------
\* Item assignment: self[key] = val

\* the held value after held.__setitem__(key, val), a list being the one
\* held value modelled that supports it
SetItemHeld(held, key, val) ==
  IF held.t = "list" /\ key < Len(held.xs)
  THEN [held EXCEPT !.xs[key + 1] = val]
  ELSE held

\* Q.__setitem__(key, val).eval_(held): the method is looked up on the held
\* value, then called
SetItemEval(held, key, val, d, id) ==
  LET attr == AttrOf(AttrIndex("__setitem__"))
      call == CallOf(<<IntV(key), val>>, <<>>)
      expr == ChainOf(<<Identity, attr, call>>)
      method == Method(AttrIndex("__setitem__"), held)
  IN HelpfulFailure(expr, held,
       IF held.t # "list"
       THEN HelpfulFailure(attr, held,
              ER(NoAttribute(held, "__setitem__", id), d, FALSE))
       ELSE IF key >= Len(held.xs)
       THEN HelpfulFailure(call, method,
              ER(Raise("IndexError", "list assignment index out of range",
                       <<>>, id), d, FALSE))
       ELSE ER(Ok(NoneV, <<>>, id), d, FALSE))

\* Some.__setitem__: self.map(Q.__setitem__(key, val)); BaseNull: pass
SetItemOp(self, key, val, id) ==
  IF IsNull(self) THEN Ok(NoneV, <<>>, id)
  ELSE SetItemEval(Held(self), key, val, NoDebug, id).o

\* the diagnostics record after self[key] = val
SetItemDebug(self, key, val, d) ==
  IF IsNull(self) THEN d ELSE SetItemEval(Held(self), key, val, d, 0).d

\* item assignment that works on a copy of what the receiver holds
SetItemSelf_Copy(self, key, val) == self

\* the receiver after self[key] = val: the list it holds is changed in place
SetItemSelf(self, key, val) ==
  IF IsNull(self) THEN self
  ELSE IF self.t = "Collection"
  THEN [self EXCEPT !.xs = SetItemHeld(Held(self), key, val).xs]
  ELSE [self EXCEPT !.xs = <<SetItemHeld(Held(self), key, val)>>]

----------------------------------------------------------------------------
\* The calls of a program

\* the record of a call: what was called on what, and its outcome
Res(op, recv, f, args, msg, o) ==
  [op |-> op, recv |-> recv, f |-> f, fs |-> <<>>, args |-> args, msg |-> msg,
   ok |-> o.ok, ret |-> o.val, exc |-> o.exc, calls |-> o.calls]

\* the record of a call that was handed the functions fs
ResFs(op, recv, fs, args, o) ==
  [Res(op, recv, "", args, "", o) EXCEPT !.fs = fs]

Idle == Res("idle", NoneV, "", <<>>, "", Ok(NoneV, <<>>, 0))

\* what a chain starts from: nothing has been constructed yet
Nothing == NoneV

\* values a caller passes: plain values, the receiver, or a wrapper made for
\* the call (identity -1 until the call gives it one)
PlainArgs == {IntV(0), Tag(1)}

NewArgs == {MkNull("Null", -1), Scalar(IntV(1), -1)}

Args == PlainArgs \cup NewArgs \cup (IF IsWrapper(w) THEN {w} ELSE {})

\* the argument as an object, and the next free identity after making it
Arg(a, id) == IF a.id = -1 THEN [a EXCEPT !.id = id] ELSE a

ArgNext(a, id) == IF a.id = -1 THEN id + 1 ELSE id

\* a sequence of arguments as objects
RECURSIVE ArgSeq(_, _)
ArgSeq(as, id) ==
  IF as = <<>> THEN <<>>
  ELSE <<Arg(Head(as), id)>> \o ArgSeq(Tail(as), ArgNext(Head(as), id))

RECURSIVE ArgSeqNext(_, _)
ArgSeqNext(as, id) ==
  IF as = <<>> THEN id ELSE ArgSeqNext(Tail(as), ArgNext(Head(as), id))

\* sequences over S of length at most n
SeqsUpTo(S, n) == UNION {[1..k -> S] : k \in 0..n}

\* the values handed to Scalar(...) and to Node(...)
ScalarChoices == {IntV(0), IntV(1), ListV(<<IntV(1)>>)}

NodeChoices == {Tag(1), IntV(0), NavStr(1)}

\* the elements handed to Collection(...)
ItemChoices ==
  {Scalar(IntV(1), -1), MkNull("Null", -1), NodeNew(IntV(0), -1), IntV(1)}

\* the operands handed to zip(...)
OtherChoices == {w, ListV(<<IntV(0)>>)}

\* the keys assigned to: the first item, and one past a single item
Keys == {0, 1}

\* the values assigned to an item
Assigned == {IntV(0), IntV(1)}

\* the keys read: integer positions (from either end, in and out of range)
\* and slices
KeyChoices == {IntV(-1), IntV(0), IntV(1), IntV(5), SliceV(0, 2), SliceV(1, 1)}

\* the functions handed to each(...) and dump(...): one returning its
\* argument, one returning a plain value, one returning a null wrapper
EachFuncs == {"ident", "zero", "mkNull"}

\* the right operands of the operators
OperandChoices ==
  {MkNull("Null", -1), MkNull("NullNode", -1), IntV(0), IntV(1),
   Scalar(IntV(1), -1)}

\* the functions handed to either(...): one returning the wrapper itself,
\* one returning a null wrapper, one raising
EitherFuncs == {"ident", "mkNull", "boom"}

\* the predicates handed to filter, takewhile and dropwhile
PredFuncs == {"truthy", "isScalar", "boom"}

\* the keys handed to dictzip(...)
DictzipKeys == {ListV(<<StrV(1), StrV(2)>>)}

\* the most expression objects an expression is built from
MaxItems == 3

\* the attributes asked of an expression: .val and .foo
AttrChoices == {AttrIndex("val"), AttrIndex("foo")}

\* the key an expression is indexed with
ExprKeys == {IntV(0)}

\* Q.foo, which fails on every plain value
QFoo == Expression_getattr(Identity, AttrIndex("foo"))

\* the operator and right operand of Q <op> other
BinaryChoices ==
  {<<"add", IntV(1)>>, <<"truediv", IntV(0)>>, <<"add", Identity>>,
   <<"add", QFoo>>}

\* the expressions handed to _chain: Q and Q.foo
ChainOthers == {Identity, QFoo}

\* a list of n ones, whose repr is 3 * n characters long
Ones(n) == ListV([i \in 1..n |-> IntV(1)])

\* the values expressions are evaluated on: a number, {'a': "it's"},
\* Scalar(1), and two lists whose reprs are ReprLimit and ReprLimit + 3 long
EvalInputs ==
  {IntV(1), DictV(<<TupleV(<<StrV(1), AposV>>)>>), Scalar(IntV(1), 1),
   Ones(ReprLimit \div 3), Ones(ReprLimit \div 3 + 1)}

\* the calls that hand an expression to a wrapper
EnclosingOps == {"map", "apply", "each", "either", "dump"}

\* the first identity free for the objects an evaluation creates
EvalFresh == NextId(Scalar(IntV(1), 1))

\* the message handed to require(...)
Msgs == {"custom"}

\* the first identity a call on w may give to an object it creates
Fresh == NextId(w)

\* A program makes its calls one after the other and catches no exception:
\* the call that raises is its last (res.ok guards every call).

\* Scalar(value), Node(value), Null(), NullNode(), NullCollection() and
\* Collection(items) start a chain
NewScalar(value) ==
  /\ res.ok
  /\ w = Nothing
  /\ res' = Res("Scalar", NoneV, "", <<value>>, "",
                Ok(Scalar(value, Fresh), <<>>, Fresh + 1))
  /\ UNCHANGED <<w, dbg>>

NewNode(value) ==
  /\ res.ok
  /\ w = Nothing
  /\ res' = Res("Node", NoneV, "", <<value>>, "",
                Ok(NodeNew(value, Fresh), <<>>, Fresh + 1))
  /\ UNCHANGED <<w, dbg>>

NewNull(kind) ==
  /\ res.ok
  /\ w = Nothing
  /\ res' = Res(kind, NoneV, "", <<>>, "",
                Ok(MkNull(kind, Fresh), <<>>, Fresh + 1))
  /\ UNCHANGED <<w, dbg>>

NewCollection(as) ==
  /\ res.ok
  /\ w = Nothing
  /\ LET items == ArgSeq(as, Fresh)
         o == Collection_init(items, ArgSeqNext(as, Fresh))
     IN res' = Res("Collection", NoneV, "", items, "", o)
  /\ UNCHANGED <<w, dbg>>

\* Wrapper.wrap(value)
WrapCall(a) ==
  /\ res.ok
  /\ LET x == Arg(a, Fresh)
         id == ArgNext(a, Fresh)
     IN res' = Res("wrap", NoneV, "", <<x>>, "",
                   Ok(Wrap(x, id), <<>>, WrapNext(x, id)))
  /\ UNCHANGED <<w, dbg>>

Map(f) ==
  /\ res.ok
  /\ IsWrapper(w)
  /\ res' = Res("map", w, f, <<>>, "", MapOp(w, f, Fresh))
  /\ UNCHANGED <<w, dbg>>

Apply(f) ==
  /\ res.ok
  /\ IsWrapper(w)
  /\ res' = Res("apply", w, f, <<>>, "", ApplyOp(w, f, Fresh))
  /\ UNCHANGED <<w, dbg>>

Val ==
  /\ res.ok
  /\ IsWrapper(w)
  /\ res' = Res("val", w, "", <<>>, "", ValOp(w, Fresh))
  /\ UNCHANGED <<w, dbg>>

Nonnull ==
  /\ res.ok
  /\ IsWrapper(w)
  /\ res' = Res("nonnull", w, "", <<>>, "", NonnullOp(w, Fresh))
  /\ UNCHANGED <<w, dbg>>

Orelse(a) ==
  /\ res.ok
  /\ IsWrapper(w)
  /\ LET x == Arg(a, Fresh)
     IN res' = Res("orelse", w, "", <<x>>, "",
                   OrelseOp(w, x, ArgNext(a, Fresh)))
  /\ UNCHANGED <<w, dbg>>

Require(f, msg) ==
  /\ res.ok
  /\ IsWrapper(w)
  /\ res' = Res("require", w, f, <<>>, msg, RequireOp(w, f, msg, Fresh))
  /\ UNCHANGED <<w, dbg>>

IsCollectionLike(x) == x.t \in {"Collection", "NullCollection"}

Zip(as) ==
  /\ res.ok
  /\ IsCollectionLike(w)
  /\ LET others == ArgSeq(as, Fresh)
     IN res' = Res("zip", w, "", others, "",
                   Collection_zip(w, others, ArgSeqNext(as, Fresh)))
  /\ UNCHANGED <<w, dbg>>

CallAll ==
  /\ res.ok
  /\ IsCollectionLike(w)
  /\ res' = Res("all", w, "", <<>>, "", Collection_all(w, Fresh))
  /\ UNCHANGED <<w, dbg>>

CallAny ==
  /\ res.ok
  /\ IsCollectionLike(w)
  /\ res' = Res("any", w, "", <<>>, "", Collection_any(w, Fresh))
  /\ UNCHANGED <<w, dbg>>

CallNone ==
  /\ res.ok
  /\ IsCollectionLike(w)
  /\ res' = Res("none", w, "", <<>>, "", Collection_none(w, Fresh))
  /\ UNCHANGED <<w, dbg>>

\* w[key] = val, on a receiver that is not a Node (whose item assignment
\* belongs to the tree adapter)
SetItem(key, a) ==
  /\ res.ok
  /\ IsWrapper(w)
  /\ ~ IsNode(w)
  /\ LET x == Arg(a, Fresh)
     IN /\ res' = Res("setitem", w, "", <<IntV(key), x>>, "",
                      SetItemOp(w, key, x, ArgNext(a, Fresh)))
        /\ w' = SetItemSelf(w, key, x)
        /\ dbg' = SetItemDebug(w, key, x, dbg)

\* w[key], on a receiver that is not a Node (whose items belong to the tree
\* adapter)
GetItem(key) ==
  /\ res.ok
  /\ IsWrapper(w)
  /\ ~ IsNode(w)
  /\ res' = Res("getitem", w, "", <<key>>, "", GetItemOp(w, key, Fresh))
  /\ UNCHANGED <<w, dbg>>

First ==
  /\ res.ok
  /\ IsCollectionLike(w)
  /\ res' = Res("first", w, "", <<>>, "", FirstOp(w, Fresh))
  /\ UNCHANGED <<w, dbg>>

Each(fs) ==
  /\ res.ok
  /\ IsCollectionLike(w)
  /\ res' = ResFs("each", w, fs, <<>>, EachOp(w, fs, Fresh))
  /\ UNCHANGED <<w, dbg>>

\* w <op> a, on a Scalar or a Null
BinOp(op, a) ==
  /\ res.ok
  /\ w.t \in {"Scalar", "Null"}
  /\ LET x == Arg(a, Fresh)
     IN /\ res' = Res("binop", w, op, <<x>>, "",
                      BinOpOp(w, op, x, ArgNext(a, Fresh)))
        /\ dbg' = Scalar_binop_debug(w, op, x, dbg)
  /\ UNCHANGED w

\* w.dump(a=fs[1], b=fs[2], ...)
Dump(fs) ==
  /\ res.ok
  /\ IsWrapper(w)
  /\ Len(fs) <= Len(Names)
  /\ res' = ResFs("dump", w, fs, [i \in 1..Len(fs) |-> StrV(i)],
                  DumpOp(w, [i \in 1..Len(fs) |-> i], fs, Fresh))
  /\ dbg' = DumpDebug(w, [i \in 1..Len(fs) |-> i], fs, dbg)
  /\ UNCHANGED w

\* either(fs[1], fs[2], ...)(w)
CallEither(fs) ==
  /\ res.ok
  /\ IsWrapper(w)
  /\ res' = ResFs("either", w, fs, <<>>, Either(w, fs, Fresh))
  /\ UNCHANGED <<w, dbg>>

\* what the tree adapter may return for the property or search name
AdapterResults(name) ==
  IF name \in SingleProps \cup SingleFinds THEN {NoneV, Tag(2), NavStr(1)}
  ELSE IF name \in MultiProps \cup MultiFinds
  THEN {ListV(<<>>), ListV(<<Tag(2)>>), ListV(<<Tag(2), NavStr(1)>>)}
  ELSE IF name = "attrs" THEN {DictV(<<>>)}
  ELSE {StrV(1)}

\* w.<name> or w.<name>(...), val being what the adapter returns for it
Nav(name, val) ==
  /\ res.ok
  /\ IsNode(w) \/ w.t = "NullNode"
  /\ res' = Res("nav", w, name, <<val>>, "", NavOp(w, name, val, Fresh))
  /\ UNCHANGED <<w, dbg>>

Filter(f) ==
  /\ res.ok
  /\ IsCollectionLike(w)
  /\ res' = Res("filter", w, f, <<>>, "", FilterOp(w, f, Fresh))
  /\ UNCHANGED <<w, dbg>>

Takewhile(f) ==
  /\ res.ok
  /\ IsCollectionLike(w)
  /\ res' = Res("takewhile", w, f, <<>>, "", TakewhileOp(w, f, Fresh))
  /\ UNCHANGED <<w, dbg>>

Dropwhile(f) ==
  /\ res.ok
  /\ IsCollectionLike(w)
  /\ res' = Res("dropwhile", w, f, <<>>, "", DropwhileOp(w, f, Fresh))
  /\ UNCHANGED <<w, dbg>>

Count ==
  /\ res.ok
  /\ IsCollectionLike(w)
  /\ res' = Res("count", w, "", <<>>, "", CountOp(w, Fresh))
  /\ UNCHANGED <<w, dbg>>

\* len(w), on a receiver that is not a Node (whose length belongs to the
\* tree adapter)
CallLen ==
  /\ res.ok
  /\ IsWrapper(w)
  /\ ~ IsNode(w)
  /\ res' = Res("len", w, "", <<>>, "", LenOp(w, Fresh))
  /\ UNCHANGED <<w, dbg>>

\* for item in w
Iterate ==
  /\ res.ok
  /\ IsCollectionLike(w)
  /\ res' = Res("iter", w, "", <<>>, "", Collection_iter(w, Fresh))
  /\ UNCHANGED <<w, dbg>>

Dictzip(keys) ==
  /\ res.ok
  /\ IsCollectionLike(w)
  /\ res' = Res("dictzip", w, "", <<keys>>, "",
                Collection_dictzip(w, keys, Fresh))
  /\ UNCHANGED <<w, dbg>>

\* w.<name>, for a name that is none of the wrapper's own attributes
GetAttr(k) ==
  /\ res.ok
  /\ IsWrapper(w)
  /\ AttrNames[k] = "foo"
  /\ res' = Res("getattr", w, AttrNames[k], <<>>, "", GetAttrOp(w, k, Fresh))
  /\ UNCHANGED <<w, dbg>>

\* w(), on the wrappers that define __call__ (a Node's goes to the tree
\* adapter)
Invoke ==
  /\ res.ok
  /\ w.t \in {"Scalar", "Null", "NullNode"}
  /\ res' = Res("call", w, "", <<>>, "", CallOp(w, Fresh))
  /\ UNCHANGED <<w, dbg>>

\* the calls that follow are made on the wrapper just constructed
Chain ==
  /\ res.ok
  /\ w = Nothing
  /\ res.op # "idle"
  /\ IsWrapper(res.ret)
  /\ w' = Renum(res.ret, 1).v
  /\ res' = Idle
  /\ UNCHANGED dbg

Init ==
  /\ w = Nothing
  /\ res = Idle
  /\ dbg = NoDebug

Next ==
  \/ \E value \in ScalarChoices : NewScalar(value)
  \/ \E value \in NodeChoices : NewNode(value)
  \/ \E kind \in NullKinds : NewNull(kind)
  \/ \E as \in SeqsUpTo(ItemChoices, MaxLen) : NewCollection(as)
  \/ \E a \in Args : WrapCall(a)
  \/ \E f \in Funcs : Map(f)
  \/ \E f \in Funcs : Apply(f)
  \/ Val
  \/ Nonnull
  \/ \E a \in Args : Orelse(a)
  \/ \E f \in Funcs, msg \in Msgs : Require(f, msg)
  \/ \E as \in SeqsUpTo(OtherChoices, MaxOthers) : Zip(as)
  \/ CallAll
  \/ CallAny
  \/ CallNone
  \/ \E key \in Keys, a \in Assigned : SetItem(key, a)
  \/ \E key \in KeyChoices : GetItem(key)
  \/ First
  \/ \E f \in PredFuncs : Filter(f)
  \/ \E f \in PredFuncs : Takewhile(f)
  \/ \E f \in PredFuncs : Dropwhile(f)
  \/ Count
  \/ \E fs \in SeqsUpTo(EitherFuncs, MaxFuncs) : CallEither(fs)
  \/ \E name \in SingleProps \cup SingleFinds \cup MultiProps \cup MultiFinds
                   \cup ScalarProps :
       \E val \in AdapterResults(name) : Nav(name, val)
  \/ \E fs \in SeqsUpTo(EachFuncs, MaxFuncs) : Dump(fs)
  \/ \E op \in CmpOps \cup EqOps \cup ArithOps, a \in OperandChoices : BinOp(op, a)
  \/ \E fs \in SeqsUpTo(EachFuncs, MaxFuncs) : Each(fs)
  \/ CallLen
  \/ Iterate
  \/ \E keys \in DictzipKeys : Dictzip(keys)
  \/ \E k \in 1..Len(AttrNames) : GetAttr(k)
  \/ Invoke
  \/ Chain

Spec == Init /\ [][Next]_vars

----------------------------------------------------------------------------
\* Building and evaluating expressions: an expression is built step by step,
\* then used any number of times. The caller of eval_ catches what it raises
\* and goes on.

\* nothing has been evaluated yet
Building ==
  res.op \in {"idle", "getattr", "getitem", "call", "_chain", "binop"}

\* wrapper.<op>(e), on Scalar(x) (each on Collection([Scalar(x)]), either as
\* either(e)(Scalar(x)), dump as dump(a=e)): e is evaluated once, on the
\* value held by map and on the wrapper by the others
WithExpr(op, e, x, d, id) ==
  LET self == Scalar(x, id)
      result(r) ==
        LET a == WrapOutcome(r.o)
            u == Unwrap(a.val)
        IN ER(IF ~ r.o.ok THEN r.o
              ELSE CASE op \in {"map", "apply"} -> a
                     [] op = "each" ->
                          [Collection_init(<<r.o.val>>, r.o.n)
                             EXCEPT !.calls = r.o.calls]
                     [] op = "either" ->
                          IF Truthy(a.val) THEN a
                          ELSE Ok(MkNull("Null", a.n), a.calls, a.n + 1)
                     [] op = "dump" ->
                          IF ~ u.ok THEN Raise(u.cls, "", a.calls, a.n)
                          ELSE Ok(Scalar(DictV(<<TupleV(<<StrV(1), u.val>>)>>),
                                         a.n),
                                  a.calls, a.n + 1),
              r.d, r.marked)
  IN Eager(Eval(e, IF op = "map" THEN x ELSE self, d, id + 1), result)

\* w.<name>
ExprAttr(k) ==
  /\ IsExpr(w)
  /\ Building
  /\ Size(w) < MaxItems
  /\ w' = Expression_getattr(w, k)
  /\ res' = Res("getattr", w, AttrNames[k], <<>>, "", Ok(w', <<>>, 0))
  /\ UNCHANGED dbg

\* w[key]
ExprItem(key) ==
  /\ IsExpr(w)
  /\ Building
  /\ Size(w) < MaxItems
  /\ w' = Expression_getitem(w, key)
  /\ res' = Res("getitem", w, "", <<key>>, "", Ok(w', <<>>, 0))
  /\ UNCHANGED dbg

\* w()
ExprCall ==
  /\ IsExpr(w)
  /\ Building
  /\ Size(w) < MaxItems
  /\ w' = Expression_call(w, <<>>, <<>>)
  /\ res' = Res("call", w, "", <<>>, "", Ok(w', <<>>, 0))
  /\ UNCHANGED dbg

\* w._chain(other)
ExprChain(other) ==
  /\ IsExpr(w)
  /\ Building
  /\ Size(w) + Size(other) <= MaxItems
  /\ w' = Expression_chain(w, other)
  /\ res' = Res("_chain", w, "", <<other>>, "", Ok(w', <<>>, 0))
  /\ UNCHANGED dbg

\* w <op> other
ExprBinary(op, other) ==
  /\ IsExpr(w)
  /\ Building
  /\ Size(w) + Size(other) < MaxItems
  /\ w' = Expression_binop(w, op, other)
  /\ res' = Res("binop", w, op, <<other>>, "", Ok(w', <<>>, 0))
  /\ UNCHANGED dbg

\* w.eval_(x)
ExprEval(x) ==
  /\ IsExpr(w)
  /\ \E r \in {Eval(w, x, dbg, EvalFresh)} :
       /\ res' = Res("eval", w, "", <<x>>, "", r.o)
       /\ dbg' = r.d
  /\ UNCHANGED w

\* Scalar(x).map(w) and the like
ExprIn(op, x) ==
  /\ IsExpr(w)
  /\ \E r \in {WithExpr(op, w, x, dbg, EvalFresh - 1)} :
       /\ res' = Res(op, w, "", <<x>>, "", r.o)
       /\ dbg' = r.d
  /\ UNCHANGED w

\* self.debug_(), self being Q or the expression built
ExprDebug(self) ==
  /\ IsExpr(w)
  /\ res' = Res("debug_", self, "", <<>>, "",
                Ok(Expression_debug(self, dbg), <<>>, 0))
  /\ UNCHANGED <<w, dbg>>

ExprInit ==
  /\ w = Identity
  /\ res = Idle
  /\ dbg = NoDebug

ExprNext ==
  \/ \E k \in AttrChoices : ExprAttr(k)
  \/ \E key \in ExprKeys : ExprItem(key)
  \/ ExprCall
  \/ \E other \in ChainOthers : ExprChain(other)
  \/ \E c \in BinaryChoices : ExprBinary(c[1], c[2])
  \/ \E x \in EvalInputs : ExprEval(x)
  \/ \E op \in EnclosingOps : ExprIn(op, IntV(1))
  \/ ExprDebug(Identity)
  \/ ExprDebug(w)

ExprSpec == ExprInit /\ [][ExprNext]_vars


----------------------------------------------------------------------------
\* Properties

\* the non-null receiver of the last call, when it was a call of op
CalledOnSome(op) == res.op = op /\ ~ IsNull(res.recv)

CalledOnNull(op) == res.op = op /\ IsNull(res.recv)

\* what the function of the last call returns for value
FnOn(value) == CallFn(res.f, value, NextId(res.recv))

\* C1 (as claimed): for every non-null wrapper w and function f,
\* w.map(f).val() equals f(w.val()), and map raises what f raises.
C1_MapValIsFOfVal ==
  CalledOnSome("map") /\ ValOf(res.recv).ok =>
    LET r == FnOn(ValOf(res.recv).val)
    IN IF r.ok
       THEN res.ok /\ ValOf(res.ret).ok /\ ValOf(res.ret).val = r.val
       ELSE ~ res.ok /\ res.exc = r.exc

\* C1 (amended): map calls f once on the value the wrapper holds, which is
\* w.val() for a Scalar or Node but the list of item wrappers for a
\* Collection, and returns wrap(f(held)): the wrapper f returned, or else a
\* wrapper whose val() is what f returned; it raises what f raises.
C1_MapAppliesToHeld ==
  CalledOnSome("map") =>
    LET held == Held(res.recv)
        r == FnOn(held)
    IN /\ res.calls = <<held>>
       /\ res.recv.t # "Collection" => held = ValOf(res.recv).val
       /\ res.recv.t = "Collection" => held = ListV(res.recv.xs)
       /\ IF ~ r.ok THEN ~ res.ok /\ res.exc = r.exc
          ELSE IF IsWrapper(r.val) THEN res.ok /\ res.ret = r.val
          ELSE /\ res.ok
               /\ res.ret.t \in SomeKinds \ {"Collection"}
               /\ ValOf(res.ret).val = r.val

\* a function was mapped over a Collection that has items
C1_Witness ==
  /\ CalledOnSome("map")
  /\ res.recv.t = "Collection"
  /\ Len(res.recv.xs) > 0
  /\ res.f = "ident"
  /\ res.ok

C3_ValNonnullAsClaimed ==
  /\ CalledOnNull("val") \/ CalledOnNull("nonnull") =>
       ~ res.ok /\ res.exc.cls = "NullValueError"
  /\ CalledOnSome("nonnull") => res.ok /\ res.ret = res.recv
  /\ CalledOnSome("val") =>
       /\ res.ok
       /\ res.recv.t # "Collection" => res.ret = res.recv.xs[1]

\* C3 (amended): val() and nonnull() raise NullValueError on every null
\* variant (so nothing can be chained after nonnull() on a null); nonnull()
\* returns a non-null wrapper itself; val() returns the held value of a
\* Scalar or Node; val() of a Collection is the list of its items' val() in
\* order and raises what the first failing item raises, which is
\* NullValueError for a null item.
C3_ValNonnull ==
  /\ CalledOnNull("val") \/ CalledOnNull("nonnull") =>
       ~ res.ok /\ res.exc.cls = "NullValueError"
  /\ CalledOnSome("nonnull") => res.ok /\ res.ret = res.recv
  /\ CalledOnSome("val") /\ res.recv.t # "Collection" =>
       res.ok /\ res.ret = res.recv.xs[1]
  /\ CalledOnSome("val") /\ res.recv.t = "Collection" =>
       LET items == res.recv.xs
           failing == {i \in 1..Len(items) : ~ ValOf(items[i]).ok}
       IN IF failing = {}
          THEN /\ res.ok
               /\ res.ret = ListV([i \in 1..Len(items) |-> ValOf(items[i]).val])
          ELSE /\ ~ res.ok
               /\ res.exc.cls = ValOf(items[Least(failing)]).cls
               /\ IsNull(items[Least(failing)]) =>
                    res.exc.cls = "NullValueError"

\* val() was called on a Collection one of whose items is null
C3_Witness ==
  /\ CalledOnSome("val")
  /\ res.recv.t = "Collection"
  /\ \E i \in 1..Len(res.recv.xs) : IsNull(res.recv.xs[i])
  /\ ~ res.ok

\* C4 (as claimed): w.orelse(x) is w for a non-null w; n.orelse(x).val()
\* equals x for a null n and any fallback x.
C4_OrelseAsClaimed ==
  /\ CalledOnSome("orelse") => res.ok /\ res.ret = res.recv
  /\ CalledOnNull("orelse") =>
       res.ok /\ ValOf(res.ret).ok /\ ValOf(res.ret).val = res.args[1]

\* C4 (amended): w.orelse(x) is w for a non-null w; for a null n,
\* n.orelse(x) is wrap(x): x itself when x is a Wrapper (so val() gives x's
\* own value, or raises when x is null), and otherwise a wrapper whose val()
\* equals x.
C4_Orelse ==
  /\ CalledOnSome("orelse") => res.ok /\ res.ret = res.recv
  /\ CalledOnNull("orelse") =>
       LET x == res.args[1]
       IN /\ res.ok
          /\ IsWrapper(x) => res.ret = x
          /\ ~ IsWrapper(x) =>
               /\ res.ret.t \in SomeKinds \ {"Collection"}
               /\ ValOf(res.ret).val = x

\* orelse was called on a null wrapper with a fallback that is a wrapper
C4_Witness ==
  /\ CalledOnNull("orelse")
  /\ IsWrapper(res.args[1])
  /\ res.ok

\* C5: on a non-null w, require(p, msg) returns w itself iff p(w) is truthy
\* and otherwise raises NullValueError carrying msg; on a null wrapper it
\* raises NullValueError without calling p.
C5_Require ==
  /\ CalledOnNull("require") =>
       ~ res.ok /\ res.exc.cls = "NullValueError" /\ res.calls = <<>>
  /\ CalledOnSome("require") /\ FnOn(res.recv).ok =>
       /\ res.calls = <<res.recv>>
       /\ IF Truthy(FnOn(res.recv).val)
          THEN res.ok /\ res.ret = res.recv
          ELSE ~ res.ok /\ res.exc = [cls |-> "NullValueError", msg |-> res.msg]

\* require was called on a non-null wrapper with a predicate that is falsy
C5_Witness ==
  /\ CalledOnSome("require")
  /\ FnOn(res.recv).ok
  /\ ~ Truthy(FnOn(res.recv).val)
  /\ ~ res.ok

\* C6: wrap(value) is value itself when it is a Wrapper (null or not), else
\* a Node around it when it has the tree-navigation attribute, else a
\* Scalar around it; so wrapping the result again gives the same object.
C6_Wrap ==
  res.op = "wrap" =>
    LET x == res.args[1]
    IN /\ res.ok
       /\ IsWrapper(x) => res.ret = x
       /\ ~ IsWrapper(x) /\ x.t = "tag" => res.ret.t = "Node" /\ res.ret.xs = <<x>>
       /\ ~ IsWrapper(x) /\ x.t # "tag" =>
            res.ret.t = "Scalar" /\ res.ret.xs = <<x>>
       /\ Wrap(res.ret, NextId(res.ret)) = res.ret

\* wrap was called on a null wrapper, and on a wrapper that wrap returned
C6_Witness ==
  /\ res.op = "wrap"
  /\ IsWrapper(res.args[1])
  /\ res.args[1] = w
  /\ res.ret = w

\* C7: on a non-null w, apply(f) calls f exactly once, with w itself, and
\* returns wrap(f(w)) (raising what f raises).
C7_Apply ==
  CalledOnSome("apply") =>
    LET r == FnOn(res.recv)
    IN /\ res.calls = <<res.recv>>
       /\ IF r.ok THEN res.ok /\ res.ret = Wrap(r.val, r.n)
          ELSE ~ res.ok /\ res.exc = r.exc

\* apply was called on a Scalar with a function that tells a wrapper from
\* the value it holds
C7_Witness ==
  /\ CalledOnSome("apply")
  /\ res.f = "isScalar"
  /\ res.recv.t = "Scalar"
  /\ res.ret = Scalar(BoolV(TRUE), NextId(res.recv))

\* every item of x is a Wrapper, if x is a non-null Collection
HoldsOnlyWrappers(x) ==
  x.t = "Collection" => \A i \in 1..Len(x.xs) : IsWrapper(x.xs[i])

\* C8: every non-null Collection that exists holds only Wrapper elements,
\* and Collection(items) with a non-Wrapper element raises TypeError.
C8_CollectionsHoldOnlyWrappers ==
  /\ HoldsOnlyWrappers(w)
  /\ res.ok => HoldsOnlyWrappers(res.ret)
  /\ res.op = "Collection"
       /\ (\E i \in 1..Len(res.args) : ~ IsWrapper(res.args[i]))
       => ~ res.ok /\ res.exc.cls = "TypeError"

\* the length of a zip operand that is a non-null Collection or a list
OperandLen(x) == Len(x.xs)

\* C9 (length law): when an operand of zip has a length other than the
\* receiver's, zip raises the length-mismatch ValueError, whatever the
\* elements are.
C9_ZipLengthLaw ==
  /\ CalledOnSome("zip")
  /\ \A i \in 1..Len(res.args) : res.args[i].t \in {"Collection", "list"}
  /\ \E i \in 1..Len(res.args) :
       OperandLen(res.args[i]) # OperandLen(res.recv)
  => /\ ~ res.ok
     /\ res.exc = [cls |-> "ValueError",
                   msg |-> "Arguments are not all the same length"]

\* C10 (as claimed): all/any/none return a Scalar boolean reducing the
\* truthiness of the unwrapped items.
UnwrappedTruthy(item) == ValOf(item).ok /\ Truthy(ValOf(item).val)

C10_ReduceUnwrapped ==
  LET items == res.recv.xs
  IN /\ CalledOnSome("all") =>
          /\ res.ok
          /\ res.ret.t = "Scalar"
          /\ res.ret.xs[1] =
               BoolV(\A i \in 1..Len(items) : UnwrappedTruthy(items[i]))
     /\ CalledOnSome("any") =>
          /\ res.ok
          /\ res.ret.t = "Scalar"
          /\ res.ret.xs[1] =
               BoolV(\E i \in 1..Len(items) : UnwrappedTruthy(items[i]))
     /\ CalledOnSome("none") =>
          /\ res.ok
          /\ res.ret.t = "Scalar"
          /\ res.ret.xs[1] =
               BoolV(~ \E i \in 1..Len(items) : UnwrappedTruthy(items[i]))

\* C10 (amended): all/any/none return a Scalar boolean reducing the
\* truthiness of the items themselves (a Scalar is truthy iff its held
\* value is, a Node always, a Collection iff non-empty, a null variant
\* never): all() iff every item is truthy, any() iff one is, none() iff
\* none is; on the empty Collection all() and none() are true, any() false.
C10_ReduceItems ==
  LET items == res.recv.xs
  IN /\ CalledOnSome("all") =>
          /\ res.ok
          /\ res.ret.t = "Scalar"
          /\ res.ret.xs[1] = BoolV(\A i \in 1..Len(items) : Truthy(items[i]))
          /\ items = <<>> => res.ret.xs[1] = BoolV(TRUE)
     /\ CalledOnSome("any") =>
          /\ res.ok
          /\ res.ret.t = "Scalar"
          /\ res.ret.xs[1] = BoolV(\E i \in 1..Len(items) : Truthy(items[i]))
          /\ items = <<>> => res.ret.xs[1] = BoolV(FALSE)
     /\ CalledOnSome("none") =>
          /\ res.ok
          /\ res.ret.t = "Scalar"
          /\ res.ret.xs[1] = BoolV(~ \E i \in 1..Len(items) : Truthy(items[i]))
          /\ items = <<>> => res.ret.xs[1] = BoolV(TRUE)

\* none() was called on a Collection holding a Node whose value is falsy
C10_Witness ==
  /\ CalledOnSome("none")
  /\ \E i \in 1..Len(res.recv.xs) :
       IsNode(res.recv.xs[i]) /\ ~ Truthy(res.recv.xs[i].xs[1])
  /\ res.ok

FnOnItem(j, i) == CallFn(res.fs[j], res.recv.xs[i], NextId(res.recv))

\* C12: each(f) with a single function wraps every result: whatever f
\* returns, a Wrapper or not, each(f) succeeds and returns a Collection of
\* the same length and order whose i-th element is wrap(f(item_i)).
C12_EachWrapsResults ==
  CalledOnSome("each") /\ Len(res.fs) = 1
      /\ (\A i \in 1..Len(res.recv.xs) : FnOnItem(1, i).ok) =>
    /\ res.ok
    /\ res.ret.t = "Collection"
    /\ Len(res.ret.xs) = Len(res.recv.xs)
    /\ \A i \in 1..Len(res.recv.xs) :
         LET r == FnOnItem(1, i).val
         IN IF IsWrapper(r) THEN res.ret.xs[i] = r
            ELSE res.ret.xs[i].t = "Scalar" /\ res.ret.xs[i].xs = <<r>>

\* C13: each(f1, ..., fk) with k > 1 returns a Collection of the receiver's
\* length and order whose i-th element is a Scalar holding the k-tuple
\* (unwrap(f1(item_i)), ..., unwrap(fk(item_i))) in the order the functions
\* were given, provided every result can be unwrapped; otherwise it raises.
C13_EachTuples ==
  CalledOnSome("each") /\ Len(res.fs) > 1 =>
    LET items == res.recv.xs
        k == Len(res.fs)
        fine == \A i \in 1..Len(items), j \in 1..k :
                  FnOnItem(j, i).ok /\ Unwrap(FnOnItem(j, i).val).ok
    IN IF fine
       THEN /\ res.ok
            /\ res.ret.t = "Collection"
            /\ Len(res.ret.xs) = Len(items)
            /\ \A i \in 1..Len(items) :
                 /\ res.ret.xs[i].t = "Scalar"
                 /\ res.ret.xs[i].xs =
                      <<TupleV([j \in 1..k |-> Unwrap(FnOnItem(j, i).val).val])>>
       ELSE ~ res.ok

\* each was handed two different functions on a Collection that has items
C13_Witness ==
  /\ CalledOnSome("each")
  /\ res.fs = <<"ident", "zero">>
  /\ Len(res.recv.xs) > 0
  /\ res.ok

\* C14: for a non-null Scalar s and a Null operand n every comparison and
\* arithmetic operator yields a Null wrapper and raises nothing, and every
\* such operator with a Null receiver yields Null for any right operand.
C14_OperatorsWithNull ==
  /\ CalledOnSome("binop") /\ res.recv.t = "Scalar" /\ res.args[1].t = "Null" =>
       res.ok /\ res.ret.t = "Null"
  /\ CalledOnNull("binop") /\ res.recv.t = "Null" =>
       res.ok /\ res.ret.t = "Null"

\* a Scalar was divided by a Null operand, and the operand came back
C14_Witness ==
  /\ CalledOnSome("binop")
  /\ res.f = "truediv"
  /\ res.recv.t = "Scalar"
  /\ res.args[1].t = "Null"
  /\ res.ret = res.args[1]

\* what w.apply(fs[i]) returns for the wrapper w, in the last call
ApplyOn(x, i) == ApplyOp(x, res.fs[i], NextId(res.recv))

\* the record dump builds for the wrapper x: under the i-th name the
\* unwrapped result of x.apply(fs[i])
RecordOf(x) ==
  DictV([i \in 1..Len(res.fs) |->
           TupleV(<<res.args[i], Unwrap(ApplyOn(x, i).val).val>>)])

\* some x.apply(fs[i]) is a null wrapper
SomeApplyNull(x) == \E i \in 1..Len(res.fs) : IsNull(ApplyOn(x, i).val)

\* C15: for a non-null Scalar or Node w, w.dump(name_1=f_1, ...) returns a
\* Scalar holding a record with exactly the keys name_1..name_k, where
\* record[name_i] is the unwrapped result of w.apply(f_i); if some
\* w.apply(f_i) is a null wrapper dump raises NullValueError instead of
\* storing a null or a default.  Collection.dump yields the ordered
\* Collection of these per-item records.
C15_Dump ==
  /\ CalledOnSome("dump") /\ res.recv.t # "Collection" =>
       IF SomeApplyNull(res.recv)
       THEN ~ res.ok /\ res.exc.cls = "NullValueError"
       ELSE /\ res.ok
            /\ res.ret.t = "Scalar"
            /\ res.ret.xs = <<RecordOf(res.recv)>>
            /\ Len(Held(res.ret).xs) = Len(res.fs)
  /\ CalledOnSome("dump") /\ res.recv.t = "Collection"
       /\ (\A i \in 1..Len(res.recv.xs) :
             res.recv.xs[i].t \in {"Scalar", "Node", "NavigableStringNode"}) =>
       IF \E i \in 1..Len(res.recv.xs) : SomeApplyNull(res.recv.xs[i])
       THEN ~ res.ok /\ res.exc.cls = "NullValueError"
       ELSE /\ res.ok
            /\ res.ret.t = "Collection"
            /\ Len(res.ret.xs) = Len(res.recv.xs)
            /\ \A i \in 1..Len(res.recv.xs) :
                 /\ res.ret.xs[i].t = "Scalar"
                 /\ res.ret.xs[i].xs = <<RecordOf(res.recv.xs[i])>>

\* dump with two names was called on a Node, one function returning the
\* Node itself and one a plain value
C15_Witness ==
  /\ CalledOnSome("dump")
  /\ IsNode(res.recv)
  /\ res.fs = <<"ident", "zero">>
  /\ res.ok
  /\ Held(res.ret) =
       DictV(<<TupleV(<<StrV(1), Held(res.recv)>>), TupleV(<<StrV(2), IntV(0)>>)>>)

\* C16: dump on any null variant, with any mapping of names to functions
\* (a non-empty one included), yields Null: it raises nothing and calls none
\* of the functions.
C16_NullDumpIsNull ==
  CalledOnNull("dump") =>
    res.ok /\ res.ret.t = "Null" /\ res.calls = <<>>

\* truthiness as the claim states it
ClaimTruthy(x) ==
  CASE IsNull(x) -> FALSE
    [] x.t = "Scalar" -> Truthy(Held(x))
    [] IsNode(x) -> TRUE
    [] x.t = "Collection" -> Len(x.xs) > 0

\* C17: either(f1, ..., fk) applied to a wrapper w returns w.apply(fi) for
\* the smallest i whose result is truthy (null variants falsy, a Scalar
\* truthy iff its held value is, a Node always, a Collection iff non-empty),
\* calls no fj with j > i, and returns Null when no result is truthy, also
\* when w itself is null.
C17_Either ==
  res.op = "either" =>
    LET k == Len(res.fs)
        hit == {i \in 1..k : ApplyOn(res.recv, i).ok
                               /\ ClaimTruthy(ApplyOn(res.recv, i).val)}
        bad == {i \in 1..k : ~ ApplyOn(res.recv, i).ok}
    IN /\ hit # {} /\ (\A j \in bad : j > Least(hit)) =>
            /\ res.ok
            /\ res.ret = ApplyOn(res.recv, Least(hit)).val
            /\ Len(res.calls) <= Least(hit)
            /\ ~ IsNull(res.recv) => Len(res.calls) = Least(hit)
       /\ hit = {} /\ bad = {} => res.ok /\ res.ret.t = "Null"
       /\ IsNull(res.recv) => res.ok /\ res.ret.t = "Null" /\ res.calls = <<>>

\* either was applied to a truthy wrapper with a first function that
\* returns it and a second that would have raised
C17_Witness ==
  /\ res.op = "either"
  /\ res.fs = <<"ident", "boom">>
  /\ ~ IsNull(res.recv)
  /\ res.ok
  /\ res.ret = res.recv
  /\ res.calls = <<res.recv>>

\* the last call was the property or search name on a Node over a tree
\* element
NavOnNode(names) ==
  res.op = "nav" /\ res.recv.t = "Node" /\ IsElement(Held(res.recv))
    /\ res.f \in names

\* C18: on a Node, a single-valued property or search returns NullNode
\* exactly when the adapter reports absence and otherwise a Node wrapping
\* the adapter's result; a multi-valued one always returns a non-null
\* Collection of Nodes wrapping the adapter's results in order, empty when
\* the adapter returns an empty sequence, never NullCollection.
C18_AdapterTranslation ==
  /\ NavOnNode(SingleProps \cup SingleFinds) =>
       /\ res.ok
       /\ res.ret.t = "NullNode" <=> res.args[1] = NoneV
       /\ res.args[1] # NoneV => IsNode(res.ret) /\ Held(res.ret) = res.args[1]
  /\ NavOnNode(MultiProps \cup MultiFinds) =>
       /\ res.ok
       /\ res.ret.t = "Collection"
       /\ Len(res.ret.xs) = Len(res.args[1].xs)
       /\ \A i \in 1..Len(res.ret.xs) :
            IsNode(res.ret.xs[i]) /\ Held(res.ret.xs[i]) = res.args[1].xs[i]

\* a multi-valued search on a Node for which the adapter found nothing
C18_Witness ==
  /\ NavOnNode({"find_all"})
  /\ res.args[1] = ListV(<<>>)
  /\ res.ret.t = "Collection"
  /\ res.ret.xs = <<>>

\* the last call was the property or search name on a leaf Node
NavOnLeaf(names) ==
  res.op = "nav" /\ res.recv.t = "NavigableStringNode" /\ res.f \in names

\* what every leaf Node answers, whatever the adapter would return
LeafAnswers ==
  /\ NavOnLeaf({"text"}) => res.ok /\ res.ret = Scalar(Held(res.recv), res.ret.id)
  /\ NavOnLeaf({"name"}) => res.ok /\ res.ret = Scalar(StrV(0), res.ret.id)
  /\ NavOnLeaf({"attrs"}) => res.ok /\ res.ret = Scalar(DictV(<<>>), res.ret.id)

\* C19 (as claimed): a Node over a leaf value takes the leaf behaviour: all
\* its collection-valued properties and its searches yield empty results
\* (an empty Collection for the multi-valued, NullNode for single searches)
\* whatever the adapter would return; text is the leaf's own string, name
\* the empty string, attrs an empty mapping.
C19_LeafAllEmpty ==
  /\ res.op = "Node" /\ res.args[1].t = "navstr" =>
       res.ret.t = "NavigableStringNode"
  /\ NavOnLeaf(MultiProps \cup MultiFinds) =>
       res.ok /\ res.ret.t = "Collection" /\ res.ret.xs = <<>>
  /\ NavOnLeaf(SingleFinds) => res.ok /\ res.ret.t = "NullNode"
  /\ LeafAnswers

\* C19 (amended): the leaf behaviour covers children, contents, descendants,
\* find_all and select (an empty Collection) and find (NullNode), whatever
\* the adapter would return, with text, name and attrs as claimed; the other
\* collection-valued properties and searches (parents, the sibling
\* collections, find_parent(s), find_next_sibling(s),
\* find_previous_sibling(s)) are translated from the adapter's result as on
\* any Node.
C19_Leaf ==
  /\ res.op = "Node" /\ res.args[1].t = "navstr" =>
       res.ret.t = "NavigableStringNode"
  /\ NavOnLeaf({"children", "contents", "descendants", "find_all", "select"}) =>
       res.ok /\ res.ret.t = "Collection" /\ res.ret.xs = <<>>
  /\ NavOnLeaf({"find"}) => res.ok /\ res.ret.t = "NullNode"
  /\ LeafAnswers
  /\ NavOnLeaf({"find_parent", "find_next_sibling", "find_previous_sibling"}) =>
       /\ res.ok
       /\ res.ret.t = "NullNode" <=> res.args[1] = NoneV
       /\ res.args[1] # NoneV => IsNode(res.ret) /\ Held(res.ret) = res.args[1]
  /\ NavOnLeaf({"parents", "next_siblings", "previous_siblings", "find_parents",
                "find_next_siblings", "find_previous_siblings"}) =>
       /\ res.ok
       /\ res.ret.t = "Collection"
       /\ Len(res.ret.xs) = Len(res.args[1].xs)
       /\ \A i \in 1..Len(res.ret.xs) : Held(res.ret.xs[i]) = res.args[1].xs[i]

\* find was called on a leaf Node although the adapter would have returned
\* an element
C19_Witness ==
  /\ NavOnLeaf({"find"})
  /\ res.args[1] = Tag(2)
  /\ res.ret.t = "NullNode"

\* the last call was op on a NullCollection
CalledOnNullCollection(op) == res.op = op /\ res.recv.t = "NullCollection"

\* C20: on NullCollection each, filter, takewhile, dropwhile (handed a
\* function) and slice indexing are no-ops that return a NullCollection
\* without calling the function; count() returns Scalar(0); integer
\* indexing and first() return NullNode.
C20_NullCollection ==
  /\ (CalledOnNullCollection("each") /\ Len(res.fs) = 1)
       \/ CalledOnNullCollection("filter")
       \/ CalledOnNullCollection("takewhile")
       \/ CalledOnNullCollection("dropwhile") =>
       res.ok /\ res.ret.t = "NullCollection" /\ res.calls = <<>>
  /\ CalledOnNullCollection("getitem") =>
       /\ res.ok
       /\ res.args[1].t = "slice" => res.ret.t = "NullCollection"
       /\ res.args[1].t = "int" => res.ret.t = "NullNode"
  /\ CalledOnNullCollection("first") => res.ok /\ res.ret.t = "NullNode"
  /\ CalledOnNullCollection("count") =>
       res.ok /\ res.ret.t = "Scalar" /\ res.ret.xs = <<IntV(0)>>

\* count() was called on a NullCollection
C20_Witness ==
  /\ CalledOnNullCollection("count")
  /\ res.ok
  /\ res.ret.xs = <<IntV(0)>>

\* the operations Scalar, Node and Collection share with their null variants
MirroredOps ==
  {"map", "apply", "val", "nonnull", "orelse", "require", "zip", "all", "any",
   "none", "setitem", "getitem", "first", "each", "binop", "dump", "nav",
   "filter", "takewhile", "dropwhile", "count", "len", "iter", "dictzip"}

\* C21: every operation of Scalar, Node and Collection, called with the same
\* arguments on Null, NullNode and NullCollection, ends without an exception,
\* unless it is val, nonnull or require raising NullValueError
C21_NullMirror ==
  (IsNull(res.recv) /\ res.op \in MirroredOps /\ ~ res.ok)
    => (res.op \in {"val", "nonnull", "require"}
        /\ res.exc.cls = "NullValueError")

\* C22: a call on a null wrapper that returns a wrapper returns a null one,
\* unless the call is orelse or count
C22_NullAbsorbs ==
  (IsNull(res.recv) /\ res.ok /\ IsWrapper(res.ret))
    => (IsNull(res.ret) \/ res.op \in {"orelse", "count"})

\* C22: the navigation, searches, map, apply, item access, attribute access
\* and calls of a null wrapper return null wrappers whenever they return: a
\* NullNode's scalar properties Null, its single-node ones NullNode, its
\* collections and multiple searches NullCollection
C22_NullNavigation ==
  (IsNull(res.recv) /\ res.ok
   /\ res.op \in {"nav", "map", "apply", "getitem", "getattr", "call"})
    => /\ IsNull(res.ret)
       /\ (res.op = "nav" /\ res.f \in ScalarProps) => res.ret.t = "Null"
       /\ (res.op = "nav" /\ res.f \in SingleProps \cup SingleFinds)
            => res.ret.t = "NullNode"
       /\ (res.op = "nav" /\ res.f \in MultiProps \cup MultiFinds)
            => res.ret.t = "NullCollection"
       /\ res.op \in {"map", "apply"} => res.ret = res.recv


----------------------------------------------------------------------------
\* Properties of expressions

\* the calls that chain an expression to the receiver
ChainingOps == {"getattr", "getitem", "call", "_chain"}

\* the expression the last call chained to its receiver
Appended ==
  CASE res.op = "getattr" -> AttrOf(AttrIndex(res.f))
    [] res.op = "getitem" -> GetItemOf(res.args[1])
    [] res.op = "call" -> CallOf(<<>>, <<>>)
    [] res.op = "_chain" -> res.args[1]

\* e2.eval_(e1.eval_(x)), as an outcome; the failure of e1 is the outcome
EvalAfter(e1, e2, x) ==
  LET a == Eval(e1, x, NoDebug, EvalFresh).o
  IN IF a.ok THEN Eval(e2, a.val, NoDebug, a.n).o ELSE a

\* C23: for expressions e1, e2 and an input x on which evaluation succeeds,
\* (e1 then e2).eval_(x) equals e2.eval_(e1.eval_(x)); a Chain threads the
\* input through its members left to right, each stage's output being the
\* next stage's input, and Identity returns its input unchanged.
C23_Composition ==
  /\ res.op \in ChainingOps =>
       \A x \in EvalInputs :
         LET whole == Eval(res.ret, x, NoDebug, EvalFresh).o
             staged == EvalAfter(res.recv, Appended, x)
         IN /\ whole.ok <=> staged.ok
            /\ whole.ok => whole.val = staged.val
  /\ res.op = "eval" /\ res.ok /\ res.recv.t = "Chain" =>
       \A k \in 1..(Len(res.recv.xs) - 1) :
         LET staged == EvalAfter(ChainOf(SubSeq(res.recv.xs, 1, k)),
                                 ChainOf(SubSeq(res.recv.xs, k + 1,
                                                Len(res.recv.xs))),
                                 res.args[1])
         IN staged.ok /\ staged.val = res.ret
  /\ res.op = "eval" /\ res.recv = Identity =>
       res.ok /\ res.ret = res.args[1]

\* a chain of two stages was evaluated, and each stage changed the value
C23_Witness ==
  /\ res.op = "eval" /\ res.ok /\ res.recv.t = "Chain"
  /\ \E k \in 1..(Len(res.recv.xs) - 1) :
       LET mid == Eval(ChainOf(SubSeq(res.recv.xs, 1, k)), res.args[1],
                       NoDebug, EvalFresh).o
       IN mid.ok /\ mid.val # res.args[1] /\ mid.val # res.ret

\* the step an evaluation that failed was at: the last one it began
FailedStep == res.calls[Len(res.calls)]

\* C24: after a top-level eval_(x) of expression E fails, the diagnostics
\* record is (expr = E, inner_expr = the innermost sub-expression at which
\* the exception first occurred, val = x, inner_val = the value passed to
\* that sub-expression): the enclosing eval_ levels keep the two inner fields
\* and replace only expr and val.
C24_Record ==
  res.op = "eval" /\ ~ res.ok =>
    dbg = QDebug(res.recv, FailedStep.xs[1], res.args[1], FailedStep.xs[2])

\* an evaluation failed below its top level, on a value that is not the input
C24_Witness ==
  /\ res.op = "eval" /\ ~ res.ok
  /\ dbg.inner_expr # dbg.expr
  /\ dbg.inner_val # dbg.val
  /\ Len(res.calls) > 1

\* what the step of an evaluation gives by itself, outside _helpful_failure
StepRaw(e, val) ==
  LET operand(x) ==
        IF IsExpr(x) THEN Eval(x, val, NoDebug, EvalFresh).o.val ELSE x
  IN CASE e.t = "Expression" -> Ok(val, <<>>, EvalFresh)
       [] e.t = "Attr" -> GetAttrOp(val, e.n, EvalFresh)
       [] e.t = "GetItem" -> GetItemValue(e.xs[1], val, EvalFresh)
       [] e.t = "Call" -> CallOp(val, EvalFresh)
       [] e.t = "BinaryOp" ->
            BinaryOp_op(OpNames[e.n], operand(e.xs[1]), operand(e.xs[2]),
                        NoDebug, EvalFresh).o

\* the text the library means to show for a value: its repr, or its type's
\* name when the repr is longer than ReprLimit
ShownValue(val) ==
  IF Len(ReprQ(val, "'")) > ReprLimit
  THEN "<" \o TypeName(val) \o " instance>"
  ELSE ReprQ(val, "'")

\* C25 (as claimed): the error raised by a failing eval_ has the message
\* <original error text> + "\n\n\tEncountered when evaluating " + R + S, S
\* being the text of the innermost failing sub-expression and R the repr of
\* the value passed to it, replaced by "<TypeName instance>" exactly when
\* that repr is longer than 150 characters; the enrichment is applied once,
\* and the error keeps its kind, a key-lookup failure becoming the dedicated
\* key-error kind.
C25_Message ==
  res.op = "eval" /\ ~ res.ok =>
    LET raw == StepRaw(FailedStep.xs[1], FailedStep.xs[2])
    IN /\ ~ raw.ok
       /\ res.exc.cls =
            IF raw.exc.cls = "KeyError" THEN "QKeyError" ELSE raw.exc.cls
       /\ res.exc.msg =
            raw.exc.msg \o "\n\n\tEncountered when evaluating "
              \o ShownValue(FailedStep.xs[2]) \o Str(FailedStep.xs[1])

----------------------------------------------------------------------------
\* Properties of the state a call leaves behind

\* the items of the list a wrapper holds
HeldItems(x) == IF x.t = "Collection" THEN x.xs ELSE Held(x).xs

----------------------------------------------------------------------------
\* Properties of the diagnostics record

\* what debug_ returns for a record
Snapshot(d) ==
  IF d.set THEN V("QDebug", 0, <<d.expr, d.inner_expr, d.val, d.inner_val>>, 0)
  ELSE V("QDebug", 0, <<NoneV, NoneV, NoneV, NoneV>>, 0)

\* one step of a program, as the record and its accessor Q.debug_() see it: a
\* failing eval_ writes its own snapshot, a successful one writes nothing,
\* and the accessor returns the record as it stands
AccessorStep ==
  /\ res'.op = "eval" /\ ~ res'.ok =>
       dbg'.set /\ dbg'.expr = res'.recv /\ dbg'.val = res'.args[1]
  /\ res'.op = "eval" /\ res'.ok => dbg' = dbg
  /\ res'.op = "debug_" /\ res'.recv = Identity =>
       dbg' = dbg /\ res'.ret = Snapshot(dbg)

\* C27: at every point of a sequence of top-level eval_ calls the diagnostics
\* accessor returns four unset fields if no eval_ has failed so far, and
\* otherwise the snapshot written by the most recent failing eval_: each
\* failing evaluation overwrites the record and a successful one leaves it
\* unchanged.
C27_Accessor == ~ dbg.set /\ [][AccessorStep]_vars

\* the accessor has returned the snapshot of a failed evaluation
C27_Witness ==
  /\ res.op = "debug_" /\ res.recv = Identity
  /\ dbg.set
  /\ res.ret = Snapshot(dbg)

----------------------------------------------------------------------------
\* Properties of a failing evaluation

\* e.eval_(x), as an outcome
Evaluated(e, x) == Eval(e, x, NoDebug, EvalFresh).o

\* the first k members of a Chain, as a Chain
Prefix(e, k) == ChainOf(SubSeq(e.xs, 1, k))

\* member k of the chain e raises, on input x, for the value the members
\* before it give
StageRaises(e, k, x) ==
  /\ e.xs[k].t # "BinaryOp"
  /\ Evaluated(Prefix(e, k - 1), x).ok
  /\ ~ StepRaw(e.xs[k], Evaluated(Prefix(e, k - 1), x).val).ok

\* operand i of the binary operation e raises on input x, the operands before
\* it having been evaluated
OperandRaises(e, i, x) ==
  /\ IsExpr(e.xs[i])
  /\ ~ Evaluated(e.xs[i], x).ok
  /\ \A j \in 1..(i - 1) : IsExpr(e.xs[j]) => Evaluated(e.xs[j], x).ok

\* what wrapper.<op>(e) evaluates e on, the wrapper being Scalar(x)
GivenTo(op, x) == IF op = "map" THEN x ELSE Scalar(x, EvalFresh - 1)

\* C28: when stage k of a Chain, or an operand of a BinaryOp, raises during
\* eval_, no later stage is evaluated and the error propagates out of the
\* top-level eval_ and out of an enclosing map, apply, each, either or dump
\* call; it is never caught and turned into a null wrapper or a default.
C28_Propagates ==
  /\ res.op = "eval" /\ res.recv.t = "Chain" =>
       \A k \in 1..Len(res.recv.xs) :
         StageRaises(res.recv, k, res.args[1]) =>
           LET raw == StepRaw(res.recv.xs[k],
                              Evaluated(Prefix(res.recv, k - 1),
                                        res.args[1]).val)
           IN /\ ~ res.ok /\ res.ret = NoneV
              /\ res.exc.cls = IF raw.exc.cls = "KeyError" THEN "QKeyError"
                               ELSE raw.exc.cls
              /\ FailedStep.xs[1] = res.recv.xs[k]
              /\ res.calls = Evaluated(Prefix(res.recv, k), res.args[1]).calls
  /\ res.op = "eval" /\ res.recv.t = "BinaryOp" =>
       \A i \in 1..2 :
         OperandRaises(res.recv, i, res.args[1]) =>
           /\ ~ res.ok /\ res.ret = NoneV
           /\ res.exc = Evaluated(res.recv.xs[i], res.args[1]).exc
           /\ FailedStep =
                LET steps == Evaluated(res.recv.xs[i], res.args[1]).calls
                IN steps[Len(steps)]
  /\ res.op \in EnclosingOps =>
       LET inside == Evaluated(res.recv, GivenTo(res.op, res.args[1]))
       IN ~ inside.ok =>
            ~ res.ok /\ res.ret = NoneV /\ res.exc = inside.exc

\* a chain failed before its last stage
C28_Witness ==
  /\ res.op = "eval" /\ ~ res.ok /\ res.recv.t = "Chain"
  /\ \E k \in 1..(Len(res.recv.xs) - 1) :
       StageRaises(res.recv, k, res.args[1])

\* an enclosing call raised what the expression handed to it raised
C28_EnclosingRaised ==
  /\ res.op \in EnclosingOps /\ ~ res.ok
  /\ ~ Evaluated(res.recv, GivenTo(res.op, res.args[1])).ok

----------------------------------------------------------------------------
\* Properties of the expressions built

\* the members an operand brings to a Chain: its own if it is a Chain, else
\* the operand itself
Members(e) == IF e.t = "Chain" THEN e.xs ELSE <<e>>

\* C29: every Chain built through attribute access, indexing, invocation or
\* _chain is flat: none of its members is itself a Chain, and its member
\* sequence is the left operand's members (or the operand itself if it is
\* not a Chain) followed by the right operand's.
C29_Flat ==
  res.op \in ChainingOps =>
    /\ res.ret.t = "Chain"
    /\ \A i \in 1..Len(res.ret.xs) : res.ret.xs[i].t # "Chain"
    /\ res.ret.xs = Members(res.recv) \o Members(Appended)

\* an expression was chained to a Chain
C29_Witness ==
  /\ res.op = "_chain"
  /\ res.recv.t = "Chain"
  /\ Len(res.ret.xs) > Len(res.recv.xs)

----------------------------------------------------------------------------
\* Properties of takewhile and dropwhile

\* the position of the first item of c on which the predicate f is falsy, one
\* past the end if there is none
Cut(c, f) ==
  Least({i \in 1..(Len(c.xs) + 1) :
           i = Len(c.xs) + 1 \/ ~ Truthy(CallFn(f, c.xs[i], 0).val)})

\* the last call was c.takewhile(f) or c.dropwhile(f) on a Collection c, f
\* being a predicate that raises on nothing
Partitioned ==
  /\ res.op \in {"takewhile", "dropwhile"}
  /\ res.recv.t = "Collection"
  /\ res.f # "boom"

\* c.takewhile(f) is the longest prefix of c on which f is truthy,
\* c.dropwhile(f) the rest, and c is as it was
PartitionLaw ==
  LET c == res.recv
      taken == Collection_takewhile(c, res.f, NextId(c))
      dropped == Collection_dropwhile(c, res.f, NextId(c))
  IN /\ res.ok /\ taken.ok /\ dropped.ok
     /\ res.ret.t = "Collection"
     /\ taken.val.xs = SubSeq(c.xs, 1, Cut(c, res.f) - 1)
     /\ dropped.val.xs = SubSeq(c.xs, Cut(c, res.f), Len(c.xs))
     /\ res.ret.xs = IF res.op = "takewhile" THEN taken.val.xs
                     ELSE dropped.val.xs
     /\ taken.val.xs \o dropped.val.xs = c.xs
     /\ w = c

\* C30 (as claimed): for every Collection c and predicate p, c.takewhile(p) is
\* the longest prefix of c's items on which p is truthy and c.dropwhile(p) is
\* the remaining suffix, so the items of takewhile(p) followed by those of
\* dropwhile(p) are exactly c's items in their original order, and c itself
\* is unchanged.
C30_Partition == Partitioned => PartitionLaw

\* C30, for the Collections that hold wrappers only
C30_PartitionOfWrappers ==
  Partitioned /\ (\A i \in 1..Len(res.recv.xs) : IsWrapper(res.recv.xs[i])) =>
    PartitionLaw

\* a Collection of wrappers was cut in two non-empty parts
C30_Cut ==
  /\ Partitioned /\ res.ok
  /\ \A i \in 1..Len(res.recv.xs) : IsWrapper(res.recv.xs[i])
  /\ Cut(res.recv, res.f) \in 2..Len(res.recv.xs)
====
